---- MODULE Spec2Model ----
(***************************************************************************)
(* State-machine model of the fishing game: Player (src/src/game/Player.js),*)
(* Fish (src/src/game/Fish.js), the TouchController (src/unnamed/part_004) *)
(* and the Game orchestrator (src/unnamed/part_005).                       *)
(*                                                                         *)
(* Numbers.  The code computes with IEEE doubles.  The model uses fixed    *)
(* point: lengths, positions and velocities are integers in tenths of a    *)
(* pixel (tenths of a pixel per 60fps frame), tensions are in percent,     *)
(* angles are multiples of pi/4 and their cosines and sines are in         *)
(* thousandths.  Products are rounded toward zero.  deltaTime is counted   *)
(* in 60fps frames (deltaTime / 1000 * 60 in the code).                    *)
(*                                                                         *)
(* Time.  Date.now() is only ever compared with a stored start time, so    *)
(* the model stores the elapsed time of each timed object, in clock ticks, *)
(* saturating at its duration.                                             *)
(*                                                                         *)
(* Every method of the code is an operator from a world record             *)
(*   [player, fish, game, raf, tc, emitted, performed, fault, thrown]      *)
(* (fault names the method that throws during the call, if any)            *)
(* to the world after the call, so that a method calling another method,   *)
(* or a listener called synchronously by _emit, composes as in the code.   *)
(* An action is one call made by the environment (the host page, a frame   *)
(* callback, a test): it commits the world the call returns and records    *)
(* the call in lastOp and the events it emitted in emitted.                *)
(***************************************************************************)
EXTENDS Integers, Sequences, FiniteSets, TLC

VARIABLES player, fish, game, raf, tc, emitted, performed, lastOp

vars == <<player, fish, game, raf, tc, emitted, performed, lastOp>>

----------------------------------------------------------------------------
(* Bounds of the model *)

MaxCasts == 1          \* casts per run (castCount is unbounded in the code)
MaxCatches == 1        \* successful catches per run (scores are unbounded)
MaxPowerUps == 1       \* power-ups active at once
maxFish == 1           \* options.maxFish (10 when not given)
MaxPlayTime == 4       \* time the updates of a run add up to, in frames
MaxPending == 2        \* frame callbacks pending at once
MaxCombo == 22         \* catches in a row (the multiplier's cap binds from 21)
MaxTimers == 2         \* long-press timers pending at once
MaxPoolTimers == 1     \* the same, with two fingers and a mouse
MaxListeners == 3      \* callbacks subscribed to one event at once
SchoolMaxFish == 2     \* options.maxFish of a Game with several fish in play
MaxHooked == 3         \* fish a Player has on its hook at once

----------------------------------------------------------------------------
(* Program constants, in the model's units *)

GameWidth == 3750              \* this.width  = options.width  || 375
GameHeight == 6670             \* this.height = options.height || 667
GamePlayerY == 500             \* y: 50
DefaultMaxLineLength == 3000   \* options.maxLineLength || 300
ExpiredMaxLineLength == 3000   \* this.maxLineLength = 300; // Default value
DefaultReelingSpeed == 30      \* options.reelingSpeed || 3
ExpiredReelingSpeed == 30      \* this.reelingSpeed = 3; // Default value
DefaultCastingPower == 50      \* options.castingPower || 5
DefaultMaxCastingPower == 100  \* options.maxCastingPower || 10
reelingDistance == 100         \* this.reelingDistance = 10
gravity == 3                   \* options.gravity || 0.3
airResistance == 98            \* options.airResistance || 0.98 (percent)
waterResistance == 85          \* shallow_water: 0.85 (percent)
FishScore == 10                \* getScore() of a pooled (common, normal, 32x32) fish
fishSpawnInterval == 120       \* this.fishSpawnInterval = 2000 (ms), in frames
comboTimeout == 2              \* this.comboTimeout = 5000 (ms), in clock ticks
FramesPerMinute == 3600        \* this.stats.playTime / 60000, in frames
\* TouchController: options.gestureThreshold and options.swipeMinDistance
\* (their defaults, in pixels); the delays, in clock ticks, keep the order of
\* their defaults (16 and 300 < 500 < 5000 ms)
\* options.maxTouches (10 when not given): a touch and the mouse
maxTouches == 2
gestureThreshold == 10
swipeMinDistance == 50
throttleInterval == 1
doubleTapDelay == 1
longPressDelay == 2
touchTimeout == 3
\* Player: options.touchCastSensitivity
touchCastSensitivity == 20

FishIds == 1..(maxFish * 2)    \* const poolSize = this.maxFish * 2

----------------------------------------------------------------------------
(* Arithmetic helpers *)

Abs(a) == IF a < 0 THEN -a ELSE a

Min(a, b) == IF a < b THEN a ELSE b

Max(a, b) == IF a > b THEN a ELSE b

\* n * a / d on doubles, rounded toward zero
MulDiv(a, n, d) == IF a * n >= 0 THEN (a * n) \div d ELSE -((-(a * n)) \div d)

RECURSIVE IsqrtIter(_, _, _)
IsqrtIter(n, lo, hi) ==
  IF lo >= hi THEN lo
  ELSE LET mid == (lo + hi + 1) \div 2
       IN IF mid * mid <= n THEN IsqrtIter(n, mid, hi) ELSE IsqrtIter(n, lo, mid - 1)

\* Math.sqrt, rounded down (46340 is the largest root of a 32-bit integer)
Isqrt(n) == IsqrtIter(n, 0, Min(n, 46340))

\* MathUtils.clamp
clamp(value, lo, hi) == Min(Max(value, lo), hi)

\* MathUtils.distance
distance(x1, y1, x2, y2) == Isqrt((x2 - x1) * (x2 - x1) + (y2 - y1) * (y2 - y1))

\* MathUtils.distanceSquared
distanceSquared(point1, point2) ==
  (point2.x - point1.x) * (point2.x - point1.x)
    + (point2.y - point1.y) * (point2.y - point1.y)

\* MathUtils.circleCollision: distance <= radius sum.  Math.sqrt of a square
\* is its root; of any other integer it lies strictly between Isqrt and
\* Isqrt + 1
circleCollision(circle1, circle2) ==
  LET root == Isqrt(distanceSquared(circle1, circle2))
  IN IF root * root = distanceSquared(circle1, circle2)
     THEN root <= circle1.radius + circle2.radius
     ELSE root < circle1.radius + circle2.radius

\* MathUtils.fastCircleCollision: distanceSquared <= radiusSum * radiusSum
fastCircleCollision(circle1, circle2) ==
  LET radiusSum == circle1.radius + circle2.radius
  IN distanceSquared(circle1, circle2) <= radiusSum * radiusSum

\* MathUtils.normalizeAngle on multiples of pi/4 (8 of them make 2 * Math.PI)
RECURSIVE normalizeAngle(_)
normalizeAngle(angle) ==
  IF angle < 0 THEN normalizeAngle(angle + 8)
  ELSE IF angle >= 8 THEN normalizeAngle(angle - 8)
  ELSE angle

\* Math.cos and Math.sin of a normalized multiple of pi/4, in thousandths
Cos(angle) == <<1000, 707, 0, -707, -1000, -707, 0, 707>>[angle + 1]

Sin(angle) == <<0, 707, 1000, 707, 0, -707, -1000, -707>>[angle + 1]

\* Math.cos(Math.atan2(dy, dx)) and Math.sin(Math.atan2(dy, dx)), in thousandths;
\* Math.atan2(0, 0) is 0
CosTo(dx, dy) ==
  LET len == Isqrt(dx * dx + dy * dy)
  IN IF len = 0 THEN 1000 ELSE clamp(MulDiv(dx, 1000, len), -1000, 1000)

SinTo(dx, dy) ==
  LET len == Isqrt(dx * dx + dy * dy)
  IN IF len = 0 THEN 0 ELSE clamp(MulDiv(dy, 1000, len), -1000, 1000)

\* Array.prototype.includes / indexOf on a sequence
Includes(seq, e) == \E i \in 1..Len(seq) : seq[i] = e

IndexOf(seq, e) == IF Includes(seq, e) THEN CHOOSE i \in 1..Len(seq) :
                        seq[i] = e /\ \A j \in 1..(i - 1) : seq[j] # e
                   ELSE 0

\* Array.prototype.splice(index, 1)
RemoveAt(seq, i) == [j \in 1..(Len(seq) - 1) |-> IF j < i THEN seq[j] ELSE seq[j + 1]]

Range(seq) == {seq[i] : i \in 1..Len(seq)}

----------------------------------------------------------------------------
(* The world a call works on *)

World == [player |-> player, fish |-> fish, game |-> game, raf |-> raf, tc |-> tc,
          emitted |-> <<>>, performed |-> <<>>, fault |-> "none",
          thrown |-> FALSE]

\* An exception leaves the method that throws it and every caller that does
\* not catch it: fault names the call that throws during this operation
\* ("none", "update": player.update throws inside Game.update, "render": the
\* canvas throws inside Game.render), and a "throw" in performed is the
\* exception on its way out
Throw(w) == [w EXCEPT !.performed = Append(@, "throw"), !.thrown = TRUE]

Thrown(w) == w.thrown

\* The call is recorded in the world: performed lists the calls of update,
\* render, requestAnimationFrame and cancelAnimationFrame an operation makes
Perform(w, call) == [w EXCEPT !.performed = Append(@, call)]

\* Game._emit of an event nothing outside the Game subscribes to: the event
\* is recorded; the listeners the Game registers on itself (_initializeAudio)
\* only play sounds
GameEmit(w, event) == [w EXCEPT !.emitted = Append(@, <<"Game", event>>)]

\* The callbacks a caller subscribes, by what each does when it is called:
\* "spy" returns, "thrower" throws, "once" calls off(event, once) and
\* "remover" calls off(event, spy)
Callbacks == {"spy", "thrower", "once", "remover"}

\* Game.on: eventListeners maps an event to the array of its callbacks, in the
\* order of their on() calls
GameOn(w, event, callback) ==
  IF event \in DOMAIN w.game.eventListeners
  THEN [w EXCEPT !.game.eventListeners[event] = Append(@, callback)]
  ELSE [w EXCEPT !.game.eventListeners = @ @@ (event :> <<callback>>)]

\* Game.off: indexOf finds the first occurrence and splice(index, 1) removes
\* it from the array in place
GameOff(w, event, callback) ==
  IF event \notin DOMAIN w.game.eventListeners THEN w
  ELSE IF ~Includes(w.game.eventListeners[event], callback) THEN w
  ELSE [w EXCEPT !.game.eventListeners[event] = RemoveAt(@, IndexOf(@, callback))]

\* callback(...args) inside the try of _emit: the call is recorded, and what
\* the callback throws is caught and logged
CallListener(w, event, callback) ==
  LET w1 == Perform(w, callback)
  IN CASE callback = "thrower" -> Perform(w1, "console.warn")
       [] callback = "once" -> GameOff(w1, event, "once")
       [] callback = "remover" -> GameOff(w1, event, "spy")
       [] OTHER -> w1

RECURSIVE CallListenersFrom(_, _, _, _)
\* this.eventListeners[event].forEach(callback => ...): forEach visits the
\* indices below the length the array had when it was called, in order, and
\* reads each element from the array as it is when the index is reached
CallListenersFrom(w, event, i, length) ==
  IF i > length \/ i > Len(w.game.eventListeners[event]) THEN w
  ELSE CallListenersFrom(CallListener(w, event, w.game.eventListeners[event][i]),
                         event, i + 1, length)

\* Game._emit with the callbacks subscribed by on()
GameEmitToListeners(w, event) ==
  IF event \notin DOMAIN w.game.eventListeners THEN GameEmit(w, event)
  ELSE CallListenersFrom(GameEmit(w, event), event, 1,
                         Len(w.game.eventListeners[event]))

----------------------------------------------------------------------------
(* Fish (src/src/game/Fish.js).  A fish's x is kept as the zone it lies in, *)
(* which is all the Game compares it with:                                 *)
(*   "pool"  x = -100 (setPosition(-100, -100))                            *)
(*   "edge"  x = -50 or x = width + 50 (a spawn position)                  *)
(*   "field" -100 <= x <= width + 100                                      *)
(*   "off"   x < -100 or x > width + 100                                   *)
(***************************************************************************)

FishZones == {"pool", "edge", "field", "off"}

\* fish.x < -100 || fish.x > this.width + 100
OffPlayfield(zone) == zone = "off"

\* new Fish({x: -100, y: -100, isActive: false}): the constructor ignores
\* options.isActive
NewFish == [isActive |-> TRUE, isCaught |-> FALSE, destroyed |-> FALSE, x |-> "pool"]

\* Fish._getRarityValue: rarityMap[fishType] || 1
GetRarityValue(fishType) ==
  CASE fishType = "common" -> 1
    [] fishType = "uncommon" -> 2
    [] fishType = "rare" -> 5
    [] fishType = "epic" -> 10
    [] fishType = "legendary" -> 25
    [] OTHER -> 1

\* Fish._calculateBaseScore: Math.round(10 * rarity * (width + height) / 64);
\* Math.round takes a half up
CalculateBaseScore(f) ==
  (2 * 10 * f.rarity * (f.width + f.height) + 64) \div (2 * 64)

\* Fish.getScore: Math.round(scoreValue * sizeBonus * behaviorBonus), the
\* bonus of a behavior in tenths
getScore(f) ==
  LET bonus == CASE f.behavior = "aggressive" -> 15
                 [] f.behavior = "erratic" -> 13
                 [] OTHER -> 10
  IN (2 * f.scoreValue * (f.width + f.height) * bonus + 640) \div (2 * 640)

\* new Fish(options) with the fields its score is computed from; the scale is
\* in tenths
NewFishOf(options) ==
  LET f == [isActive |-> TRUE, isCaught |-> FALSE, destroyed |-> FALSE,
            x |-> "field",
            width |-> options.width, height |-> options.height,
            scale |-> options.scale,
            fishType |-> options.fishType, behavior |-> options.behavior,
            rarity |-> GetRarityValue(options.fishType), scoreValue |-> 0]
  IN [f EXCEPT !.scoreValue = CalculateBaseScore(f)]

\* Fish.setBehavior; the speed it changes is not kept
FishSetBehavior(w, f, behavior) == [w EXCEPT !.fish[f].behavior = behavior]

\* Fish.adaptToViewport of a viewport less than 500 wide
FishAdaptToViewport(w, f) == [w EXCEPT !.fish[f].scale = Min(@, 8)]

\* Fish._emit: the event is recorded; nothing in src/ listens to a fish
FishEmit(w, event) == [w EXCEPT !.emitted = Append(@, <<"Fish", event>>)]

\* Fish.catch
FishCatch(w, f) ==
  FishEmit([w EXCEPT !.fish[f].isCaught = TRUE, !.fish[f].isActive = FALSE], "caught")

\* Fish.escape
FishEscape(w, f) ==
  FishEmit([w EXCEPT !.fish[f].isCaught = FALSE, !.fish[f].isActive = TRUE], "escaped")

\* Fish.reset
FishReset(w, f) ==
  [w EXCEPT !.fish[f].isActive = FALSE, !.fish[f].isCaught = FALSE,
            !.fish[f].destroyed = FALSE]

\* Fish.setPosition
FishSetPosition(w, f, zone) == [w EXCEPT !.fish[f].x = zone]

\* Fish.update: a destroyed, inactive or caught fish does not move; any other
\* moves by its random velocity and is clamped into its bounds (0..800), which
\* reach beyond the playfield (width + 100) on the right
FishUpdate(w, f, zone) ==
  IF w.fish[f].destroyed \/ ~w.fish[f].isActive \/ w.fish[f].isCaught THEN w
  ELSE [w EXCEPT !.fish[f].x = zone]

\* Fish.destroy
FishDestroy(w, f) ==
  FishEmit([w EXCEPT !.fish[f].destroyed = TRUE, !.fish[f].isActive = FALSE], "destroyed")

RECURSIVE FishEscapeAll(_, _)
\* caughtFish.forEach(fish => { if (fish.escape) fish.escape(); })
FishEscapeAll(w, seq) ==
  IF seq = <<>> THEN w ELSE FishEscapeAll(FishEscape(w, Head(seq)), Tail(seq))

----------------------------------------------------------------------------
(* Game: the handlers of the Player's events (src/unnamed/part_005) *)

\* Game._returnFishToPool
ReturnFishToPool(w, f) ==
  LET w1 == FishSetPosition([w EXCEPT !.fish[f].isActive = FALSE], f, "pool")
      index == IndexOf(w1.game.activeFish, f)
      w2 == IF index > 0
            THEN [w1 EXCEPT !.game.activeFish = RemoveAt(@, index)]
            ELSE w1
  IN IF Len(w2.game.fishPool) < w.game.maxFish * 2
     THEN [w2 EXCEPT !.game.fishPool = Append(@, f)]
     ELSE w2

\* Game._updateScore: Math.floor(points * this.comboMultiplier)
UpdateScore(w, points) ==
  LET finalScore == (points * w.game.comboMultiplier) \div 10
  IN GameEmit([w EXCEPT !.game.stats.score = @ + finalScore], "scoreChanged")

\* Game._updateCombo without Math.min(this.comboMultiplier, 3.0)
UpdateComboUncapped(w) ==
  LET count == w.game.comboCount + 1
  IN GameEmit([w EXCEPT !.game.comboCount = count,
                        !.game.comboIdle = 0,
                        !.game.comboMultiplier = 10 + (count - 1)],
              "comboUpdated")

\* Game._updateCombo: the multiplier is kept in tenths
UpdateCombo(w) ==
  LET count == w.game.comboCount + 1
  IN GameEmit([w EXCEPT !.game.comboCount = count,
                        !.game.comboIdle = 0,
                        !.game.comboMultiplier = Min(10 + (count - 1), 30)],
              "comboUpdated")

\* Game._handlePlayerCast
HandlePlayerCast(w) ==
  GameEmit([w EXCEPT !.game.stats.casts = @ + 1], "playerCast")

\* Game._handleFishCaught
HandleFishCaught(w, f, score) ==
  LET w1 == [w EXCEPT !.game.stats.fishCaught = @ + 1]
      w2 == UpdateScore(w1, score)
      w3 == UpdateCombo(w2)
      w4 == ReturnFishToPool(w3, f)
  IN GameEmit(w4, "fishCaught")

\* Game._calculateAccuracy, in whole percent
CalculateAccuracy(w) ==
  IF w.game.stats.casts > 0
  THEN (w.game.stats.fishCaught * 100) \div w.game.stats.casts
  ELSE 0

\* Game._handleReelingComplete
HandleReelingComplete(w) ==
  GameEmit([w EXCEPT !.game.stats.accuracy = CalculateAccuracy(w)], "reelingComplete")

----------------------------------------------------------------------------
(* Player (src/src/game/Player.js) *)

\* Player._emit: every listener registered for the event is called
\* synchronously.  The listeners are the ones Game._setupEntityEventListeners
\* registers; arg is the fish of a fishCaught event (0 otherwise).
PlayerEmit(w, event, arg) ==
  LET w1 == [w EXCEPT !.emitted = Append(@, <<"Player", event>>)]
  IN IF event \notin w.player.eventListeners THEN w1
     ELSE CASE event = "castStarted" -> HandlePlayerCast(w1)
            [] event = "fishCaught" -> HandleFishCaught(w1, arg, FishScore)
            [] event = "reelingComplete" -> HandleReelingComplete(w1)
            [] OTHER -> w1

\* Player._resetHook
ResetHook(w) ==
  [w EXCEPT !.player.hookX = w.player.x, !.player.hookY = w.player.y,
            !.player.hookVelocity = [x |-> 0, y |-> 0],
            !.player.lineLength = 0, !.player.lineTension = 0]

\* Variants of the Player's methods, each without one of their guards or
\* assignments; the properties below tell them from the methods

\* startReeling that leaves isCasting set
startReelingKeepsCasting(w) ==
  IF w.player.destroyed \/ w.player.isReeling \/ ~w.player.isCasting THEN w
  ELSE PlayerEmit([w EXCEPT !.player.isReeling = TRUE], "reelingStarted", 0)

\* _breakLine that leaves the player casting
BreakLineKeepsCasting(w) ==
  LET w1 == [w EXCEPT !.player.lineBroken = TRUE, !.player.isReeling = FALSE]
      w2 == FishEscapeAll(w1, w1.player.caughtFish)
      w3 == [w2 EXCEPT !.player.caughtFish = <<>>]
  IN ResetHook(PlayerEmit(w3, "lineBroken", 0))

\* cast without the guard on the mode flags
castUnguarded(w, power, angle) ==
  IF w.player.destroyed THEN w
  ELSE LET castingPower == clamp(power, 0, w.player.maxCastingPower)
           castingAngle == normalizeAngle(angle)
           w1 == [w EXCEPT !.player.castingPower = castingPower,
                           !.player.castingAngle = castingAngle,
                           !.player.hookVelocity =
                               [x |-> MulDiv(castingPower, Cos(castingAngle), 1000),
                                y |-> MulDiv(castingPower, Sin(castingAngle), 1000)],
                           !.player.isCasting = TRUE,
                           !.player.lineBroken = FALSE,
                           !.player.castCount = @ + 1]
       IN PlayerEmit(w1, "castStarted", 0)

\* startReeling without the guard on isCasting
startReelingFromIdle(w) ==
  IF w.player.destroyed \/ w.player.isReeling THEN w
  ELSE PlayerEmit([w EXCEPT !.player.isReeling = TRUE,
                            !.player.isCasting = FALSE],
                  "reelingStarted", 0)

\* catchFish without the guard on the fish
catchFishAgain(w, f, missed) ==
  IF w.player.destroyed THEN w
  ELSE IF missed THEN w
  ELSE LET w1 == FishCatch(w, f)
           w2 == [w1 EXCEPT !.player.caughtFish = Append(@, f),
                            !.player.totalScore = @ + FishScore,
                            !.player.fishesCaught = @ + 1]
       IN PlayerEmit(w2, "fishCaught", f)

\* Player.cast
cast(w, power, angle) ==
  IF w.player.destroyed \/ w.player.isCasting \/ w.player.isReeling THEN w
  ELSE LET castingPower == clamp(power, 0, w.player.maxCastingPower)
           castingAngle == normalizeAngle(angle)
           w1 == [w EXCEPT !.player.castingPower = castingPower,
                           !.player.castingAngle = castingAngle,
                           !.player.hookVelocity =
                               [x |-> MulDiv(castingPower, Cos(castingAngle), 1000),
                                y |-> MulDiv(castingPower, Sin(castingAngle), 1000)],
                           !.player.isCasting = TRUE,
                           !.player.lineBroken = FALSE,
                           !.player.castCount = @ + 1]
       IN PlayerEmit(w1, "castStarted", 0)

\* Player._updateLineLength
UpdateLineLength(w) ==
  [w EXCEPT !.player.lineLength =
      distance(w.player.x, w.player.y, w.player.hookX, w.player.hookY)]

\* Player._updateLineTension: tension in percent; the force is
\* (lineTension - 0.8) * 0.5 pixels per frame
UpdateLineTension(w) ==
  LET tension == clamp((w.player.lineLength * 100) \div w.player.maxLineLength, 0, 100)
      w1 == [w EXCEPT !.player.lineTension = tension]
      tensionForce == (tension - 80) \div 20
      dx == w.player.x - w.player.hookX
      dy == w.player.y - w.player.hookY
  IN IF tension > 80
     THEN [w1 EXCEPT !.player.hookVelocity =
              [x |-> @.x + MulDiv(tensionForce, CosTo(dx, dy), 1000),
               y |-> @.y + MulDiv(tensionForce, SinTo(dx, dy), 1000)]]
     ELSE w1

\* Player._breakLine
BreakLine(w) ==
  LET w1 == [w EXCEPT !.player.lineBroken = TRUE,
                      !.player.isCasting = FALSE,
                      !.player.isReeling = FALSE]
      w2 == FishEscapeAll(w1, w1.player.caughtFish)
      w3 == [w2 EXCEPT !.player.caughtFish = <<>>]
  IN ResetHook(PlayerEmit(w3, "lineBroken", 0))

\* Player._applyFishResistance: (fish.weight || 1) * 0.1 per caught fish; a
\* Fish has no weight
ApplyFishResistance(w) ==
  LET totalResistance == Len(w.player.caughtFish)
  IN [w EXCEPT !.player.hookVelocity =
         [x |-> MulDiv(@.x, 10 - totalResistance, 10),
          y |-> MulDiv(@.y, 10 - totalResistance, 10)]]

\* Player._updateHookPhysics; the weather is calm (windForce 0)
UpdateHookPhysics(w, deltaTime) ==
  IF ~w.player.isCasting /\ ~w.player.isReeling THEN w
  ELSE LET v0 == w.player.hookVelocity
           vy1 == v0.y + gravity * deltaTime
           resistance == IF w.player.hookY < w.player.waterLevel
                         THEN airResistance ELSE waterResistance
           v2 == [x |-> MulDiv(v0.x, resistance, 100),
                  y |-> MulDiv(vy1, resistance, 100)]
           w1 == [w EXCEPT !.player.hookVelocity = v2,
                           !.player.hookX = @ + v2.x * deltaTime,
                           !.player.hookY = @ + v2.y * deltaTime]
           w2 == UpdateLineTension(UpdateLineLength(w1))
           w3 == IF w2.player.lineLength > w2.player.maxLineLength
                 THEN BreakLine(w2) ELSE w2
       IN IF Len(w3.player.caughtFish) > 0 THEN ApplyFishResistance(w3) ELSE w3

\* Player.startReeling
startReeling(w) ==
  IF w.player.destroyed \/ w.player.isReeling \/ ~w.player.isCasting THEN w
  ELSE PlayerEmit([w EXCEPT !.player.isReeling = TRUE,
                            !.player.isCasting = FALSE],
                  "reelingStarted", 0)

\* Player.stopReeling
stopReeling(w) ==
  IF w.player.destroyed THEN w
  ELSE PlayerEmit([w EXCEPT !.player.isReeling = FALSE], "reelingStopped", 0)

\* Player._completeReeling
CompleteReeling(w) ==
  LET n == Len(w.player.caughtFish)
      w1 == [w EXCEPT !.player.isReeling = FALSE,
                      !.player.isCasting = FALSE,
                      !.player.totalScore = @ + n * FishScore,
                      !.player.fishesCaught = @ + n]
      w2 == PlayerEmit(w1, "reelingComplete", 0)
  IN ResetHook([w2 EXCEPT !.player.caughtFish = <<>>])

\* Player._updateReeling: no power-up of the model is of type 'reelingSpeed',
\* so this.powerUpEffects.reelingSpeed is undefined
UpdateReeling(w, deltaTime) ==
  IF ~w.player.isReeling THEN w
  ELSE LET dx == w.player.x - w.player.hookX
           dy == w.player.y - w.player.hookY
           n == Len(w.player.caughtFish)
           reelingForce == IF n > 0
                           THEN MulDiv(w.player.reelingSpeed, 10 - 3 * n, 10)
                           ELSE w.player.reelingSpeed
           w1 == [w EXCEPT !.player.hookVelocity =
                     [x |-> MulDiv(reelingForce, CosTo(dx, dy), 1000),
                      y |-> MulDiv(reelingForce, SinTo(dx, dy), 1000)]]
       IN IF w1.player.lineLength <= reelingDistance THEN CompleteReeling(w1) ELSE w1

\* Player.catchFish; missed is Math.random() > catchChance * 0.8
catchFish(w, f, missed) ==
  IF w.player.destroyed \/ w.fish[f].isCaught \/ Includes(w.player.caughtFish, f)
  THEN w
  ELSE IF missed THEN w
  ELSE LET w1 == FishCatch(w, f)
           w2 == [w1 EXCEPT !.player.caughtFish = Append(@, f),
                            !.player.totalScore = @ + FishScore,
                            !.player.fishesCaught = @ + 1]
       IN PlayerEmit(w2, "fishCaught", f)

\* Player.handleFishEscape; escapes is Math.random() < escapeChance
handleFishEscape(w, f, escapes) ==
  LET index == IndexOf(w.player.caughtFish, f)
  IN IF escapes /\ index > 0
     THEN LET w1 == [w EXCEPT !.player.caughtFish = RemoveAt(@, index)]
              w2 == FishEscape(w1, f)
              w3 == [w2 EXCEPT !.player.totalScore = Max(0, @ - FishScore),
                               !.player.fishesCaught = Max(0, @ - 1)]
          IN PlayerEmit(w3, "fishEscaped", f)
     ELSE w

\* Player.applyPowerUp: an effect property the power-up does not have is 0
applyPowerUp(w, powerUp) ==
  IF w.player.destroyed THEN w
  ELSE LET e == powerUp.effect
           w1 == [w EXCEPT !.player.maxLineLength =
                               IF e.maxLineLength # 0 THEN e.maxLineLength ELSE @,
                           !.player.reelingSpeed =
                               IF e.reelingSpeed # 0 THEN e.reelingSpeed ELSE @,
                           !.player.maxCastingPower =
                               IF e.castingPower # 0 THEN e.castingPower ELSE @,
                           !.player.activePowerUps =
                               Append(@, [powerUp EXCEPT !.elapsed = 0]),
                           !.player.powerUpEffects = @ \cup {powerUp.type}]
       IN PlayerEmit(w1, "powerUpApplied", 0)

RECURSIVE UpdatePowerUpsFrom(_, _, _)
\* the filter callback of Player._updatePowerUps, over the power-ups in order
UpdatePowerUpsFrom(w, todo, kept) ==
  IF todo = <<>> THEN [w EXCEPT !.player.activePowerUps = kept]
  ELSE LET powerUp == Head(todo)
       IN IF powerUp.elapsed >= powerUp.duration
          THEN LET w1 == [w EXCEPT
                     !.player.powerUpEffects = @ \ {powerUp.type},
                     !.player.maxLineLength =
                         IF powerUp.effect.maxLineLength # 0
                         THEN ExpiredMaxLineLength ELSE @,
                     !.player.reelingSpeed =
                         IF powerUp.effect.reelingSpeed # 0
                         THEN ExpiredReelingSpeed ELSE @]
               IN UpdatePowerUpsFrom(PlayerEmit(w1, "powerUpExpired", 0),
                                     Tail(todo), kept)
          ELSE UpdatePowerUpsFrom(w, Tail(todo), Append(kept, powerUp))

\* Player._updatePowerUps
UpdatePowerUps(w) == UpdatePowerUpsFrom(w, w.player.activePowerUps, <<>>)

\* Player.update
PlayerUpdate(w, deltaTime) ==
  IF w.player.destroyed THEN w
  ELSE UpdatePowerUps(UpdateReeling(UpdateHookPhysics(w, deltaTime), deltaTime))

\* Player.reset
PlayerReset(w) ==
  PlayerEmit(ResetHook([w EXCEPT !.player.isCasting = FALSE,
                                 !.player.isReeling = FALSE,
                                 !.player.lineBroken = FALSE,
                                 !.player.caughtFish = <<>>]),
             "playerReset", 0)

\* Player.destroy with this.caughtFish = null in place of []: a second call
\* throws at this.caughtFish.forEach
PlayerDestroyNullsCaughtFish(w) ==
  IF w.player.destroyed THEN Throw(w)
  ELSE LET w1 == [w EXCEPT !.player.destroyed = TRUE, !.player.isActive = FALSE]
           w2 == FishEscapeAll(w1, w1.player.caughtFish)
           w3 == [w2 EXCEPT !.player.caughtFish = <<>>,
                            !.player.activePowerUps = <<>>,
                            !.player.powerUpEffects = {},
                            !.player.eventListeners = {}]
       IN PlayerEmit(w3, "destroyed", 0)

\* Player.destroy: the listeners are dropped before 'destroyed' is emitted
PlayerDestroy(w) ==
  LET w1 == [w EXCEPT !.player.destroyed = TRUE, !.player.isActive = FALSE]
      w2 == FishEscapeAll(w1, w1.player.caughtFish)
      w3 == [w2 EXCEPT !.player.caughtFish = <<>>,
                       !.player.activePowerUps = <<>>,
                       !.player.powerUpEffects = {},
                       !.player.eventListeners = {}]
  IN PlayerEmit(w3, "destroyed", 0)

----------------------------------------------------------------------------
(* TouchController (src/unnamed/part_004), as the Game builds it: its      *)
(* player is the Game's Player and its gameState is the Game.  A position   *)
(* is its y coordinate in pixels (every pointer of the model moves along    *)
(* one vertical line, so that a distance is a difference of y; previousX    *)
(* and previousY, which nothing reads, are left out).  Times are            *)
(* elapsed clock ticks, saturating where the code stops telling them apart. *)
(* isEnabled, which the Game writes, is game.touchEnabled.  A listener is   *)
(* subscribed to every event of the controller until destroy() drops them.  *)
(* lastGesture and gestureInProgress, which are written and never read, are *)
(* left out.                                                                *)

\* touchObj.id of a touch object that tracks nothing (null)
NoId == -1

\* The key of the simulated touch of the mouse ('mouse')
MouseId == 0

\* The identifier the browser gives to a touch point when no other is down
TouchIds == {1}

\* getBoundingClientRect of the canvas: 375 x 667
CanvasHeight == 667

\* _initializeTouchZones: casting is the top 40% (y <= 266.8), reeling the rest
isInCastingZone(y) == y >= 0 /\ y * 10 <= CanvasHeight * 4

isInReelingZone(y) == y * 10 >= CanvasHeight * 4 /\ y <= CanvasHeight

\* touchObj.reset(), and _createTouchObject: startTime and lastMoveTime are 0,
\* so that the time since them is beyond every delay
NewTouchObject ==
  [id |-> NoId, startY |-> 0, currentY |-> 0, deltaY |-> 0,
   age |-> longPressDelay, idle |-> touchTimeout + 1, clock |-> "date",
   isActive |-> FALSE, longPressTimer |-> 0]

\* activeTouches (a Map, in insertion order): has, get, set and delete
ActiveIndex(active, id) ==
  IF \E i \in 1..Len(active) : active[i].id = id
  THEN CHOOSE i \in 1..Len(active) : active[i].id = id
  ELSE 0

ActiveHas(active, id) == ActiveIndex(active, id) > 0

ActiveGet(active, id) ==
  IF ActiveHas(active, id) THEN active[ActiveIndex(active, id)].obj ELSE 0

ActiveSet(active, id, o) ==
  IF ActiveHas(active, id)
  THEN [active EXCEPT ![ActiveIndex(active, id)].obj = o]
  ELSE Append(active, [id |-> id, obj |-> o])

ActiveDelete(active, id) ==
  IF ActiveHas(active, id) THEN RemoveAt(active, ActiveIndex(active, id)) ELSE active

\* The events of the canvas the controller listens to (mouseleave, which has
\* the handler of mouseup, is taken as a mouseup)
DomEvents == {"touchstart", "touchmove", "touchend", "touchcancel",
              "mousedown", "mousemove", "mouseup"}

\* _setupEventListeners: canvas.addEventListener(event, this._handleX.bind(this)).
\* A listener is the event and the function registered: "bound" is the new
\* function bind() returned, "method" is this._handleX itself
SetupEventListeners == {[event |-> e, fn |-> "bound"] : e \in DomEvents}

\* canvas.removeEventListener(event, fn) removes the listener whose function
\* is fn, if there is one
RemoveEventListener(handlers, event, fn) ==
  handlers \ {[event |-> event, fn |-> fn]}

RECURSIVE RemoveEventListeners(_, _, _)
RemoveEventListeners(handlers, events, fn) ==
  IF events = {} THEN handlers
  ELSE LET e == CHOOSE e \in events : TRUE
       IN RemoveEventListeners(RemoveEventListener(handlers, e, fn), events \ {e}, fn)

\* TouchController._emit, and the Game's listeners of touchStart and gesture
\* (_handleTouch, _handleGesture), which emit the Game's own events
TouchEmit(w, event, kind) ==
  IF event \notin w.tc.listeners THEN w
  ELSE LET w1 == [w EXCEPT !.emitted = Append(@, <<"TouchController", event, kind>>)]
       IN IF event = "touchStart" THEN GameEmit(w1, "touch")
          ELSE IF event = "gesture" THEN GameEmit(w1, "gesture")
          ELSE w1

\* _getTouchFromPool: this.touchPool.pop() || this._createTouchObject(), reset.
\* The world after the call, and the object it returns
GetTouchFromPool(w) ==
  IF Len(w.tc.touchPool) > 0
  THEN LET o == w.tc.touchPool[Len(w.tc.touchPool)]
       IN [world |-> [w EXCEPT !.tc.touchPool = SubSeq(@, 1, Len(@) - 1),
                               !.tc.objects[o] = NewTouchObject],
           obj |-> o]
  ELSE [world |-> [w EXCEPT !.tc.objects = Append(@, NewTouchObject)],
        obj |-> Len(w.tc.objects) + 1]

\* _returnTouchToPool
ReturnTouchToPool(w, o) ==
  IF Len(w.tc.touchPool) < maxTouches * 2
  THEN [w EXCEPT !.tc.touchPool = Append(@, o)]
  ELSE w

\* setTimeout returns a handle that no pending timer has
NewTimerHandle(timers) ==
  CHOOSE h \in 1..(Cardinality(timers) + 1) :
    /\ \A t \in timers : t.handle # h
    /\ \A k \in 1..(h - 1) : \E t \in timers : t.handle = k

\* clearTimeout
ClearTimeout(w, handle) ==
  [w EXCEPT !.tc.timers = {t \in @ : t.handle # handle}]

\* _setupLongPressDetection: the timer is kept with the object its callback
\* closes over
SetupLongPressDetection(w, o) ==
  LET w1 == IF w.tc.objects[o].longPressTimer # 0
            THEN ClearTimeout(w, w.tc.objects[o].longPressTimer)
            ELSE w
      h == NewTimerHandle(w1.tc.timers)
  IN [w1 EXCEPT !.tc.timers = @ \cup {[handle |-> h, obj |-> o, left |-> longPressDelay]},
                !.tc.objects[o].longPressTimer = h]

\* _handleLongPress
HandleLongPress(w, y) ==
  Perform(TouchEmit(w, "gesture", "longPress"), "vibrate")

\* The callback of the long-press timer
LongPressTimeout(w, handle) ==
  LET t == CHOOSE t \in w.tc.timers : t.handle = handle
      touchObj == w.tc.objects[t.obj]
      w1 == [w EXCEPT !.tc.timers = @ \ {t}]
      w2 == IF /\ touchObj.isActive
               /\ ActiveHas(w.tc.activeTouches, touchObj.id)
               /\ Abs(touchObj.deltaY) < gestureThreshold
            THEN HandleLongPress(w1, touchObj.currentY)
            ELSE w1
  IN [w2 EXCEPT !.tc.objects[t.obj].longPressTimer = 0]

\* _handlePinch
HandlePinch(w) ==
  TouchEmit(w, "gesture", "pinch")

\* _handleMultiTouchGestures: scale is currentDistance / initialDistance, which
\* is NaN for 0 / 0 (no pinch) and Infinity for a division of another number
\* by 0 (a pinch)
HandleMultiTouchGestures(w) ==
  IF Len(w.tc.activeTouches) # 2 THEN w
  ELSE LET touch1 == w.tc.objects[w.tc.activeTouches[1].obj]
           touch2 == w.tc.objects[w.tc.activeTouches[2].obj]
           currentDistance == Abs(touch2.currentY - touch1.currentY)
           initialDistance == Abs(touch2.startY - touch1.startY)
           pinch == IF initialDistance = 0 THEN currentDistance # 0
                    ELSE Abs(currentDistance - initialDistance) * 10 > initialDistance
       IN IF pinch THEN HandlePinch(w) ELSE w

\* _processTouchMove: it sets gestureInProgress
ProcessTouchMove(w, o) == w

\* Player.handleTouchCast: power is distance / touchCastSensitivity (20), in
\* tenths; the angle of a vertical drag is pi/2 downwards and -pi/2 upwards
handleTouchCast(w, startY, endY) ==
  LET w1 == Perform(w, "handleTouchCast")
  IN IF w.player.destroyed \/ w.player.isCasting \/ w.player.isReeling THEN w1
     ELSE LET power == Min((Abs(endY - startY) * 10) \div touchCastSensitivity,
                           w.player.maxCastingPower)
              angle == IF endY > startY THEN 2 ELSE IF endY < startY THEN -2 ELSE 0
          IN cast(w1, power, angle)

\* Player.handleTouchReel
handleTouchReel(w) == startReeling(Perform(w, "handleTouchReel"))

\* _handleGameTap: the call of player.handleTouchReel() is commented out
HandleGameTap(w, y) == w

\* _handleGameSwipe (currentMode is 'fishing': the Game has no currentMode)
HandleGameSwipe(w, startY, endY, dist) ==
  IF isInCastingZone(startY) /\ dist >= swipeMinDistance
  THEN handleTouchCast(w, startY, endY)
  ELSE w

\* _handleDoubleTap
HandleDoubleTap(w, y) ==
  Perform(TouchEmit(w, "gesture", "doubleTap"), "vibrate")

\* _handleTap: lastTapTime is kept as the time since it, which is beyond
\* doubleTapDelay when lastTapTime is 0
HandleTap(w, y) ==
  IF /\ w.tc.lastTapAge < doubleTapDelay
     /\ Abs(y - w.tc.lastTapPosition) < gestureThreshold
  THEN [HandleDoubleTap(w, y) EXCEPT !.tc.lastTapAge = doubleTapDelay]
  ELSE LET w1 == [w EXCEPT !.tc.lastTapAge = 0, !.tc.lastTapPosition = y]
           w2 == HandleGameTap(w1, y)
       IN Perform(TouchEmit(w2, "gesture", "tap"), "vibrate")

\* _handleSwipe
HandleSwipe(w, startY, endY, dist) ==
  LET w1 == HandleGameSwipe(w, startY, endY, dist)
  IN Perform(TouchEmit(w1, "gesture", "swipe"), "vibrate")

\* _recognizeGesture(touchObj, duration, distance); duration is touchObj's age
RecognizeGesture(w, o, dist) ==
  LET touchObj == w.tc.objects[o]
  IN IF dist < gestureThreshold /\ touchObj.age < longPressDelay
     THEN HandleTap(w, touchObj.currentY)
     ELSE IF dist >= swipeMinDistance
     THEN HandleSwipe(w, touchObj.startY, touchObj.currentY, dist)
     ELSE w

\* currentTime - this.lastMoveTime < this.throttleInterval, where lastMoveTime
\* is 0, a Date.now() (written by a touch move) or a performance.now()
\* (written by a mouse move), and currentTime is read from the clock given
Throttled(w, clock) ==
  IF w.tc.lastMove.clock = "zero" THEN FALSE
  ELSE IF w.tc.lastMove.clock = clock THEN w.tc.lastMove.age < throttleInterval
  ELSE clock = "perf"

\* _handleTouchStart without its check of maxTouches
HandleTouchStartUncapped(w, id, y) ==
  IF w.tc.destroyed \/ ~w.game.touchEnabled THEN w
  ELSE IF w.game.isPaused THEN w
  ELSE LET got == GetTouchFromPool(w)
           o == got.obj
           w1 == [got.world EXCEPT
                    !.tc.objects[o] = [NewTouchObject EXCEPT
                                         !.id = id, !.startY = y, !.currentY = y,
                                         !.age = 0, !.idle = 0, !.clock = "date",
                                         !.isActive = TRUE],
                    !.tc.activeTouches = ActiveSet(@, id, o)]
       IN SetupLongPressDetection(TouchEmit(w1, "touchStart", ""), o)

\* _handleTouchStart, for an event with one changed touch
HandleTouchStart(w, id, y) ==
  IF w.tc.destroyed \/ ~w.game.touchEnabled THEN w
  ELSE IF w.game.isPaused THEN w
  ELSE IF Len(w.tc.activeTouches) >= maxTouches THEN w
  ELSE LET got == GetTouchFromPool(w)
           o == got.obj
           w1 == [got.world EXCEPT
                    !.tc.objects[o] = [NewTouchObject EXCEPT
                                         !.id = id, !.startY = y, !.currentY = y,
                                         !.age = 0, !.idle = 0, !.clock = "date",
                                         !.isActive = TRUE],
                    !.tc.activeTouches = ActiveSet(@, id, o)]
       IN SetupLongPressDetection(TouchEmit(w1, "touchStart", ""), o)

\* _handleTouchMove, for an event with one changed touch
HandleTouchMove(w, id, y) ==
  IF w.tc.destroyed \/ ~w.game.touchEnabled THEN w
  ELSE IF w.game.isPaused THEN w
  ELSE IF Throttled(w, "date") THEN w
  ELSE LET w1 == [w EXCEPT !.tc.lastMove = [clock |-> "date", age |-> 0]]
           o == ActiveGet(w.tc.activeTouches, id)
           w2 == IF o = 0 THEN w1
                 ELSE LET touchObj == w1.tc.objects[o]
                          moved == [w1 EXCEPT !.tc.objects[o] =
                                      [touchObj EXCEPT !.currentY = y,
                                                       !.deltaY = y - touchObj.startY,
                                                       !.idle = 0, !.clock = "date"]]
                      IN TouchEmit(ProcessTouchMove(moved, o), "touchMove", "")
       IN IF Len(w2.tc.activeTouches) >= 2 THEN HandleMultiTouchGestures(w2) ELSE w2

\* _handleTouchEnd, for an event with one changed touch: the distance is taken
\* from deltaX and deltaY, which the moves wrote
HandleTouchEnd(w, id, y) ==
  IF w.tc.destroyed \/ ~w.game.touchEnabled THEN w
  ELSE LET o == ActiveGet(w.tc.activeTouches, id)
       IN IF o = 0 THEN w
          ELSE LET w1 == RecognizeGesture(w, o, Abs(w.tc.objects[o].deltaY))
                   w2 == ReturnTouchToPool(TouchEmit(w1, "touchEnd", ""), o)
               IN [w2 EXCEPT !.tc.activeTouches = ActiveDelete(@, id)]

\* _handleTouchCancel, for an event with one changed touch
HandleTouchCancel(w, id) ==
  IF w.tc.destroyed THEN w
  ELSE LET o == ActiveGet(w.tc.activeTouches, id)
           w1 == IF o = 0 THEN w
                 ELSE [ReturnTouchToPool(w, o) EXCEPT
                         !.tc.activeTouches = ActiveDelete(@, id)]
       IN TouchEmit(w1, "touchCancel", "")

RECURSIVE CleanupInactiveTouchesFrom(_, _)
\* _cleanupInactiveTouches(Date.now()): a Map's iteration goes on with the
\* next entry after a delete.  The lastMoveTime of the mouse's touch is a
\* performance.now(), which lies further back than any touchTimeout
CleanupInactiveTouchesFrom(w, i) ==
  IF i > Len(w.tc.activeTouches) THEN w
  ELSE LET e == w.tc.activeTouches[i]
           touch == w.tc.objects[e.obj]
       IN IF touch.clock = "perf" \/ touch.idle > touchTimeout
          THEN CleanupInactiveTouchesFrom(
                 [ReturnTouchToPool(w, e.obj) EXCEPT
                    !.tc.activeTouches = RemoveAt(@, i)], i)
          ELSE CleanupInactiveTouchesFrom(w, i + 1)

CleanupInactiveTouches(w) == CleanupInactiveTouchesFrom(w, 1)

\* _handleMouseDown (_createMouseTouch, _processMouseAsTouch 'start'), for a
\* position on the canvas
HandleMouseDown(w, y) ==
  IF ~w.game.touchEnabled \/ w.tc.destroyed THEN w
  ELSE IF Len(w.tc.activeTouches) > 0 THEN w
  ELSE LET got == GetTouchFromPool([w EXCEPT !.tc.mouseDown = TRUE])
           o == got.obj
           w1 == [got.world EXCEPT
                    !.tc.objects[o] = [NewTouchObject EXCEPT
                                         !.id = MouseId, !.startY = y, !.currentY = y,
                                         !.age = 0, !.idle = 0,
                                         !.clock = "perf", !.isActive = TRUE],
                    !.tc.mouseTouch = o,
                    !.tc.activeTouches = ActiveSet(@, MouseId, o)]
           w2 == SetupLongPressDetection(Perform(w1, "vibrate"), o)
       IN TouchEmit(w2, "touchStart", "")

\* _handleMouseMove (_processMouseAsTouch 'move'): deltaX and deltaY are taken
\* from the previous position
HandleMouseMove(w, y) ==
  IF ~w.game.touchEnabled \/ w.tc.destroyed \/ ~w.tc.mouseDown \/ w.tc.mouseTouch = 0
  THEN w
  ELSE IF Throttled(w, "perf") THEN w
  ELSE LET o == w.tc.mouseTouch
           mouseTouch == w.tc.objects[o]
           moved == [w EXCEPT !.tc.lastMove = [clock |-> "perf", age |-> 0],
                              !.tc.objects[o] =
                                 [mouseTouch EXCEPT !.currentY = y,
                                                    !.deltaY = y - mouseTouch.currentY,
                                                    !.idle = 0, !.clock = "perf"]]
       IN TouchEmit(ProcessTouchMove(moved, o), "touchMove", "")

\* _handleMouseUp (_processMouseAsTouch 'end'): _recognizeGesture returns
\* nothing, so _handleMouseGesture is not called
HandleMouseUp(w) ==
  IF ~w.game.touchEnabled \/ w.tc.destroyed \/ ~w.tc.mouseDown \/ w.tc.mouseTouch = 0
  THEN w
  ELSE LET o == w.tc.mouseTouch
           w1 == [w EXCEPT !.tc.mouseDown = FALSE]
           w2 == RecognizeGesture(w1, o, Abs(w1.tc.objects[o].currentY
                                             - w1.tc.objects[o].startY))
           w3 == TouchEmit(w2, "touchEnd", "")
           w4 == [w3 EXCEPT !.tc.activeTouches = ActiveDelete(@, MouseId)]
       IN [ReturnTouchToPool(w4, o) EXCEPT !.tc.mouseTouch = 0]

RECURSIVE ReturnTouchesToPool(_, _)
\* for (const touch of this.activeTouches.values()) this._returnTouchToPool(touch)
ReturnTouchesToPool(w, i) ==
  IF i > Len(w.tc.activeTouches) THEN w
  ELSE ReturnTouchesToPool(ReturnTouchToPool(w, w.tc.activeTouches[i].obj), i + 1)

\* TouchController.destroy: removeEventListener is given this._handleX, which
\* is not the function that was registered; _clearAllTimers runs after
\* activeTouches.clear() and finds no touch whose timer it could clear, and
\* 'destroyed' is emitted after the listeners were dropped
TouchDestroy(w) ==
  LET w1 == [w EXCEPT !.tc.destroyed = TRUE, !.game.touchEnabled = FALSE,
                      !.tc.handlers = RemoveEventListeners(@, DomEvents, "method"),
                      !.tc.mouseDown = FALSE]
      w2 == IF w1.tc.mouseTouch # 0
            THEN [ReturnTouchToPool(w1, w1.tc.mouseTouch) EXCEPT !.tc.mouseTouch = 0]
            ELSE w1
      w3 == ReturnTouchesToPool(w2, 1)
      w4 == [w3 EXCEPT !.tc.activeTouches = <<>>, !.tc.touchPool = <<>>,
                       !.tc.listeners = {}]
  IN TouchEmit(w4, "destroyed", "")

\* The clock advances by one tick: the times since startTime and lastMoveTime
\* of the tracked touches, since the last move and the last tap, and the
\* delays left of the pending timers
TickTouch(t) ==
  [t EXCEPT
     !.objects = [o \in DOMAIN @ |->
                    [@[o] EXCEPT !.age = Min(@ + 1, longPressDelay),
                                 !.idle = Min(@ + 1, touchTimeout + 1)]],
     !.lastMove = [@ EXCEPT !.age = Min(@ + 1, throttleInterval)],
     !.lastTapAge = Min(@ + 1, doubleTapDelay),
     !.timers = {[x EXCEPT !.left = Max(@ - 1, 0)] : x \in @}]

\* A touch object that nothing tracks is read by the callbacks of its
\* long-press timers alone, which read id, isActive, deltaX, deltaY and the
\* current position, before reset() overwrites it: what is not read is kept
\* as reset() leaves it
Settle(t) ==
  [t EXCEPT
     !.objects = [o \in DOMAIN @ |->
                    IF o = t.mouseTouch \/ \E i \in 1..Len(t.activeTouches) :
                                              t.activeTouches[i].obj = o
                    THEN @[o]
                    ELSE IF \E x \in t.timers : x.obj = o
                    THEN [NewTouchObject EXCEPT !.id = t.objects[o].id,
                                                !.isActive = t.objects[o].isActive,
                                                !.deltaY = t.objects[o].deltaY,
                                                !.currentY = t.objects[o].currentY]
                    ELSE NewTouchObject]]

\* new TouchController({canvas, player, gameState}) with the options of the
\* model's delays
TouchEvents ==
  {"touchStart", "touchMove", "touchEnd", "touchCancel", "gesture", "destroyed"}

NewTouchController ==
  [destroyed |-> FALSE,
   activeTouches |-> <<>>,
   objects |-> [o \in 1..(maxTouches * 2) |-> NewTouchObject],
   touchPool |-> [i \in 1..(maxTouches * 2) |-> i],
   lastMove |-> [clock |-> "zero", age |-> throttleInterval],
   lastTapAge |-> doubleTapDelay, lastTapPosition |-> 0,
   mouseDown |-> FALSE, mouseTouch |-> 0,
   timers |-> {},
   handlers |-> SetupEventListeners,
   listeners |-> TouchEvents]

----------------------------------------------------------------------------
(* Game (src/unnamed/part_005).  The frame counters of _updateFPS are left  *)
(* out: they are read by _adaptQuality alone, which changes nothing while   *)
(* maxFish <= 5.  _updateLOD and render only draw.  The Game's own list of  *)
(* power-ups is filled by _applyPowerUp, which nothing calls.               *)
(***************************************************************************)

\* Game._spawnFish without its check of maxFish
SpawnFishUncapped(w) ==
  IF Len(w.game.fishPool) = 0 THEN w
  ELSE LET f == w.game.fishPool[Len(w.game.fishPool)]
           w1 == [w EXCEPT !.game.fishPool = SubSeq(@, 1, Len(@) - 1)]
           w2 == FishSetPosition(w1, f, "edge")
           w3 == FishReset([w2 EXCEPT !.fish[f].isActive = TRUE], f)
       IN [w3 EXCEPT !.game.activeFish = Append(@, f)]

\* Game._spawnFish; the fish taken from the pool is its last one
\* (_getFishFromPool: this.fishPool.pop() || null)
SpawnFish(w) ==
  IF Len(w.game.activeFish) >= w.game.maxFish \/ Len(w.game.fishPool) = 0 THEN w
  ELSE LET f == w.game.fishPool[Len(w.game.fishPool)]
           w1 == [w EXCEPT !.game.fishPool = SubSeq(@, 1, Len(@) - 1)]
           w2 == FishSetPosition(w1, f, "edge")
           w3 == FishReset([w2 EXCEPT !.fish[f].isActive = TRUE], f)
       IN [w3 EXCEPT !.game.activeFish = Append(@, f)]

RECURSIVE UpdateFishFrom(_, _, _)
\* Game._updateFish: activeFish.forEach(fish => fish.update(deltaTime));
\* moves gives the zone each moving fish ends in
UpdateFishFrom(w, i, moves) ==
  IF i > Len(w.game.activeFish) THEN w
  ELSE LET f == w.game.activeFish[i]
       IN UpdateFishFrom(IF f \in DOMAIN moves THEN FishUpdate(w, f, moves[f]) ELSE w,
                         i + 1, moves)

\* Game._updateGameMechanics: Date.now() - this.lastComboTime > this.comboTimeout
UpdateGameMechanics(w) ==
  IF w.game.comboCount > 0 /\ w.game.comboIdle > comboTimeout
  THEN GameEmit([w EXCEPT !.game.comboCount = 0, !.game.comboMultiplier = 10],
                "comboLost")
  ELSE w

RECURSIVE CheckFishCollisionsFrom(_, _, _, _)
\* The forEach of Game._checkFishCollisions, by index as Array.prototype.forEach
\* walks an array that its callback splices; hits are the fish
\* player.checkFishCollision finds on the hook, misses the ones whose catch the
\* random draw of catchFish refuses
CheckFishCollisionsFrom(w, i, hits, misses) ==
  IF i > Len(w.game.activeFish) THEN w
  ELSE LET f == w.game.activeFish[i]
           w1 == IF w.fish[f].isActive /\ f \in hits
                 THEN catchFish(w, f, f \in misses) ELSE w
       IN CheckFishCollisionsFrom(w1, i + 1, hits, misses)

\* Game._checkFishCollisions
CheckFishCollisions(w, hits, misses) ==
  IF ~w.player.isCasting THEN w ELSE CheckFishCollisionsFrom(w, 1, hits, misses)

\* Game._handleFishSpawning: spawnInterval = fishSpawnInterval / fishSpawnRate,
\* the rate in tenths
HandleFishSpawning(w, deltaTime) ==
  LET w1 == [w EXCEPT !.game.lastFishSpawn = @ + deltaTime]
  IN IF w1.game.lastFishSpawn * w1.game.fishSpawnRate >= fishSpawnInterval * 10
     THEN [SpawnFish(w1) EXCEPT !.game.lastFishSpawn = 0]
     ELSE w1

\* Game._updateDifficulty: minutes = this.stats.playTime / 60000
UpdateDifficulty(w) ==
  IF w.game.stats.playTime > 5 * FramesPerMinute
  THEN [w EXCEPT !.game.difficulty = "hard", !.game.fishSpawnRate = 18]
  ELSE IF w.game.stats.playTime > 2 * FramesPerMinute
  THEN [w EXCEPT !.game.difficulty = "medium", !.game.fishSpawnRate = 14]
  ELSE [w EXCEPT !.game.difficulty = "normal", !.game.fishSpawnRate = 10]

RECURSIVE CleanupFishFrom(_, _)
\* Game._cleanupFish: from the last active fish down to the first
CleanupFishFrom(w, i) ==
  IF i < 1 THEN w
  ELSE LET f == w.game.activeFish[i]
       IN CleanupFishFrom(IF ~w.fish[f].isActive \/ OffPlayfield(w.fish[f].x)
                          THEN ReturnFishToPool(w, f) ELSE w,
                          i - 1)

CleanupFish(w) == CleanupFishFrom(w, Len(w.game.activeFish))

\* Game.update
GameUpdate(w, deltaTime, moves, hits, misses) ==
  IF w.game.destroyed THEN w
  ELSE LET w1 == [w EXCEPT !.game.stats.playTime = @ + deltaTime]
           w2 == PlayerUpdate(w1, deltaTime)
           w3 == UpdateFishFrom(w2, 1, moves)
           w4 == UpdateGameMechanics(w3)
           w5 == CheckFishCollisions(w4, hits, misses)
           w6 == HandleFishSpawning(w5, deltaTime)
           w7 == UpdateDifficulty(w6)
       IN IF w.fault = "update" THEN Throw(w1) ELSE CleanupFish(w7)

\* Game.render: it draws, and catches what drawing throws
GameRender(w) ==
  IF w.game.destroyed THEN w
  ELSE IF w.fault = "render" THEN Perform(w, "console.warn") ELSE w

\* requestAnimationFrame: the callback is queued under a handle that is neither
\* pending nor the one the Game still holds
RequestAnimationFrame(w) ==
  LET id == CHOOSE n \in 1..(Cardinality(w.raf) + 2) :
              /\ n \notin w.raf \cup {w.game.animationFrameId}
              /\ \A k \in 1..(n - 1) : k \in w.raf \cup {w.game.animationFrameId}
  IN Perform([w EXCEPT !.raf = @ \cup {id}, !.game.animationFrameId = id],
             "requestAnimationFrame")

\* cancelAnimationFrame
CancelAnimationFrame(w, id) ==
  Perform([w EXCEPT !.raf = @ \ {id}], "cancelAnimationFrame")

\* _gameLoop that does not look at isPaused
GameLoopIgnoresPause(w, deltaTime, moves, hits, misses) ==
  IF ~w.game.isRunning \/ w.game.destroyed THEN w
  ELSE RequestAnimationFrame(
         Perform(GameUpdate(Perform(w, "update"), deltaTime, moves, hits, misses),
                 "render"))

\* Game._gameLoop after this.update(deltaTime): this.render(), unless update
\* threw
RenderFrame(w) ==
  IF Thrown(w) THEN w ELSE GameRender(Perform(w, "render"))

\* Game._gameLoop after its if (!this.isPaused) block: the next frame is
\* requested, unless an exception left the block
RequestNextFrame(w) ==
  IF Thrown(w) THEN w ELSE RequestAnimationFrame(w)

\* Game._gameLoop
GameLoop(w, deltaTime, moves, hits, misses) ==
  IF ~w.game.isRunning \/ w.game.destroyed THEN w
  ELSE RequestNextFrame(
         IF w.game.isPaused THEN w
         ELSE RenderFrame(GameUpdate(Perform(w, "update"), deltaTime,
                                     moves, hits, misses)))

\* Game.start; its _gameLoop() call runs at the time lastFrameTime was set,
\* with a deltaTime of 0
GameStart(w, moves, hits, misses) ==
  IF w.game.destroyed \/ w.game.isRunning THEN w
  ELSE LET w1 == [w EXCEPT !.game.isRunning = TRUE, !.game.isPaused = FALSE,
                           !.game.gameState = "playing",
                           !.game.touchEnabled = TRUE]
       IN GameEmit(GameLoop(w1, 0, moves, hits, misses), "gameStarted")

\* pause without the guard on isRunning and isPaused
GamePauseUnguarded(w) ==
  IF w.game.destroyed THEN w
  ELSE GameEmit([w EXCEPT !.game.isPaused = TRUE, !.game.gameState = "paused",
                          !.game.touchEnabled = FALSE],
                "gamePaused")

\* Game.pause
GamePause(w) ==
  IF w.game.destroyed \/ ~w.game.isRunning \/ w.game.isPaused THEN w
  ELSE GameEmit([w EXCEPT !.game.isPaused = TRUE, !.game.gameState = "paused",
                          !.game.touchEnabled = FALSE],
                "gamePaused")

\* Game.resume
GameResume(w) ==
  IF w.game.destroyed \/ ~w.game.isRunning \/ ~w.game.isPaused THEN w
  ELSE GameEmit([w EXCEPT !.game.isPaused = FALSE, !.game.gameState = "playing",
                          !.game.touchEnabled = TRUE],
                "gameResumed")

\* Game.stop
GameStop(w) ==
  IF w.game.destroyed \/ ~w.game.isRunning THEN w
  ELSE LET w1 == [w EXCEPT !.game.isRunning = FALSE, !.game.isPaused = FALSE,
                           !.game.gameState = "stopped"]
           w2 == IF w1.game.animationFrameId # 0
                 THEN [CancelAnimationFrame(w1, w1.game.animationFrameId)
                         EXCEPT !.game.animationFrameId = 0]
                 ELSE w1
       IN GameEmit([w2 EXCEPT !.game.touchEnabled = FALSE], "gameStopped")

RECURSIVE ReturnActiveFishFrom(_, _)
\* this.activeFish.forEach(fish => this._returnFishToPool(fish)): forEach goes
\* on with the next index after its callback has spliced the array
ReturnActiveFishFrom(w, i) ==
  IF i > Len(w.game.activeFish) THEN w
  ELSE ReturnActiveFishFrom(ReturnFishToPool(w, w.game.activeFish[i]), i + 1)

\* Game._resetGameState
ResetGameState(w) ==
  LET w1 == [w EXCEPT !.game.stats.score = 0, !.game.stats.fishCaught = 0,
                      !.game.stats.casts = 0, !.game.stats.accuracy = 0,
                      !.game.stats.playTime = 0,
                      !.game.comboCount = 0, !.game.comboMultiplier = 10,
                      !.game.difficulty = "normal", !.game.fishSpawnRate = 10]
      w2 == ReturnActiveFishFrom(w1, 1)
  IN PlayerReset([w2 EXCEPT !.game.activeFish = <<>>])

\* Game.restart
GameRestart(w, moves, hits, misses) ==
  GameEmit(GameStart(ResetGameState(GameStop(w)), moves, hits, misses),
           "gameRestarted")

\* Game.setState
GameSetState(w, state) ==
  GameEmit([w EXCEPT !.game.gameState = state], "stateChanged")

\* Game._updateBestScore
UpdateBestScore(w) ==
  IF w.game.stats.score > w.game.stats.bestScore
  THEN GameEmit([w EXCEPT !.game.stats.bestScore = w.game.stats.score],
                "newBestScore")
  ELSE w

\* Game._gameOver
GameOver(w) ==
  LET w1 == UpdateBestScore([w EXCEPT !.game.isRunning = FALSE,
                                      !.game.gameState = "gameOver"])
  IN GameEmit([w1 EXCEPT !.game.touchEnabled = FALSE], "gameOver")

RECURSIVE FishDestroyAll(_, _)
\* [...this.activeFish, ...this.fishPool].forEach(fish => fish.destroy())
FishDestroyAll(w, seq) ==
  IF seq = <<>> THEN w ELSE FishDestroyAll(FishDestroy(w, Head(seq)), Tail(seq))

\* Game.destroy: destroyed is set before stop() is called, the listeners of
\* window and document stay (removeEventListener is handed the unbound
\* methods), and this.eventListeners = {} comes before _emit('destroyed')
GameDestroy(w) ==
  LET w1 == GameStop([w EXCEPT !.game.destroyed = TRUE])
      w2 == TouchDestroy(PlayerDestroy(w1))
      w3 == FishDestroyAll(w2, w2.game.activeFish \o w2.game.fishPool)
  IN GameEmitToListeners([w3 EXCEPT !.game.activeFish = <<>>,
                                   !.game.fishPool = <<>>,
                                   !.game.eventListeners = <<>>],
                         "destroyed")

----------------------------------------------------------------------------
(* Construction *)

\* new Player(options); _applyEnvironmentEffects: shallow_water,
\* maxLineLength *= 0.8
NewPlayer(options, listeners) ==
  [x |-> options.x, y |-> options.y, waterLevel |-> options.waterLevel,
   hookX |-> options.x, hookY |-> options.y, hookVelocity |-> [x |-> 0, y |-> 0],
   lineLength |-> 0, lineTension |-> 0, lineBroken |-> FALSE,
   maxLineLength |-> (DefaultMaxLineLength * 8) \div 10,
   isCasting |-> FALSE, isReeling |-> FALSE,
   castingPower |-> DefaultCastingPower, maxCastingPower |-> DefaultMaxCastingPower,
   castingAngle |-> 0, castCount |-> 0,
   reelingSpeed |-> options.reelingSpeed,
   caughtFish |-> <<>>, totalScore |-> 0, fishesCaught |-> 0,
   activePowerUps |-> <<>>, powerUpEffects |-> {},
   eventListeners |-> listeners,
   isActive |-> TRUE, destroyed |-> FALSE]

\* Game._createGameEntities:
\* new Player({x: this.width / 2, y: 50, waterLevel: this.height * 0.3})
GamePlayerOptions ==
  [x |-> GameWidth \div 2, y |-> GamePlayerY, waterLevel |-> (GameHeight * 3) \div 10,
   reelingSpeed |-> DefaultReelingSpeed]

\* new Game(options); _initializeFishPool pushes maxFish * 2 fish.  comboIdle is
\* Date.now() - this.lastComboTime, which starts at Date.now() - 0
NewGame ==
  [gameState |-> "menu", isRunning |-> FALSE, isPaused |-> FALSE, destroyed |-> FALSE,
   animationFrameId |-> 0,
   stats |-> [score |-> 0, fishCaught |-> 0, casts |-> 0, accuracy |-> 0,
              playTime |-> 0, bestScore |-> 0],
   fishPool |-> [i \in 1..(maxFish * 2) |-> i], activeFish |-> <<>>,
   lastFishSpawn |-> 0,
   comboCount |-> 0, comboMultiplier |-> 10, comboIdle |-> comboTimeout + 1,
   difficulty |-> "normal", fishSpawnRate |-> 10,
   touchEnabled |-> TRUE,
   eventListeners |-> <<>>,
   maxFish |-> maxFish]

\* new Game({canvas, maxFish: n})
NewGameWith(n) ==
  [NewGame EXCEPT !.maxFish = n, !.fishPool = [i \in 1..(n * 2) |-> i]]

\* The listeners Game._setupEntityEventListeners registers on its Player
GameListeners == {"castStarted", "fishCaught", "reelingComplete"}

NoOp == [op |-> "new", arg |-> 0]

\* A Game and the Player it creates
Init ==
  /\ player = NewPlayer(GamePlayerOptions, GameListeners)
  /\ fish = [f \in FishIds |-> NewFish]
  /\ game = NewGame
  /\ raf = {}
  /\ tc = NewTouchController
  /\ emitted = <<>>
  /\ performed = <<>>
  /\ lastOp = NoOp

\* A Player built on its own with the same options: nothing listens to its
\* events
InitPlayer ==
  /\ player = NewPlayer(GamePlayerOptions, {})
  /\ fish = [f \in FishIds |-> NewFish]
  /\ game = NewGame
  /\ raf = {}
  /\ tc = NewTouchController
  /\ emitted = <<>>
  /\ performed = <<>>
  /\ lastOp = NoOp

\* The world returned by a call becomes the state
Commit(w, op, arg) ==
  \E v \in {w} :
    /\ player' = v.player
    /\ fish' = v.fish
    /\ game' = v.game
    /\ raf' = v.raf
    /\ tc' = Settle(v.tc)
    /\ emitted' = v.emitted
    /\ performed' = v.performed
    /\ lastOp' = [op |-> op, arg |-> arg]

----------------------------------------------------------------------------
(* Inputs *)

\* cast(power, angle): power in tenths of a pixel per frame, angle in multiples
\* of pi/4.  2 is pi / 2 (straight down), 10 is 2 * pi + pi / 2, and 150 is above
\* maxCastingPower
CastInputs == {<<50, 2>>, <<150, 10>>}

\* deltaTime of a direct Player.update call, in 60fps frames (250 ms)
PlayerDeltaTimes == {15}

\* The power-up of the Player's tests: a stronger line (1.5 times the line
\* length of 240); its duration is one clock tick.  An effect property a
\* power-up does not have is 0.
StrongerLine ==
  [type |-> "stronger_line", duration |-> 1, elapsed |-> 0,
   effect |-> [maxLineLength |-> 3600, reelingSpeed |-> 0, castingPower |-> 0]]

PowerUps == {StrongerLine}

\* The fish handed to a Player that is used on its own
PlayerFish == {1}

----------------------------------------------------------------------------
(* The Player's public operations as actions *)

DoCast ==
  \E input \in CastInputs :
    /\ (player.destroyed \/ player.isCasting \/ player.isReeling
          \/ player.castCount < MaxCasts)
    /\ Commit(cast(World, input[1], input[2]), "cast", 0)

DoStartReeling == Commit(startReeling(World), "startReeling", 0)

DoStopReeling == Commit(stopReeling(World), "stopReeling", 0)

DoPlayerUpdate ==
  \E deltaTime \in PlayerDeltaTimes :
    Commit(PlayerUpdate(World, deltaTime), "update", 0)

DoCatchFish ==
  \E f \in PlayerFish, missed \in BOOLEAN :
    /\ player.totalScore < 2 * FishScore * MaxCatches
    /\ game.stats.fishCaught < MaxCatches
    /\ Commit(catchFish(World, f, missed), "catchFish", f)

DoHandleFishEscape ==
  \E f \in PlayerFish, escapes \in BOOLEAN :
    Commit(handleFishEscape(World, f, escapes), "handleFishEscape", f)

DoApplyPowerUp ==
  \E powerUp \in PowerUps :
    /\ Len(player.activePowerUps) < MaxPowerUps
    /\ Commit(applyPowerUp(World, powerUp), "applyPowerUp", 0)

DoPlayerReset == Commit(PlayerReset(World), "reset", 0)

DoPlayerDestroy == Commit(PlayerDestroy(World), "destroy", 0)

\* Date.now() advances by one clock tick
ClockTick ==
  /\ \/ \E i \in 1..Len(player.activePowerUps) :
           player.activePowerUps[i].elapsed < player.activePowerUps[i].duration
     \/ game.comboIdle <= comboTimeout
     \/ TickTouch(tc) # tc
  /\ \A t \in tc.timers : t.left > 0
  /\ player' = [player EXCEPT !.activePowerUps =
        [i \in 1..Len(@) |-> [@[i] EXCEPT !.elapsed = Min(@ + 1, player.activePowerUps[i].duration)]]]
  /\ game' = [game EXCEPT !.comboIdle = Min(@ + 1, comboTimeout + 1)]
  /\ tc' = TickTouch(tc)
  /\ emitted' = <<>>
  /\ performed' = <<>>
  /\ lastOp' = [op |-> "clock", arg |-> 0]
  /\ UNCHANGED <<fish, raf>>

NextPlayer ==
  \/ DoCast
  \/ DoStartReeling
  \/ DoStopReeling
  \/ DoPlayerUpdate
  \/ DoCatchFish
  \/ DoHandleFishEscape
  \/ DoApplyPowerUp
  \/ DoPlayerReset
  \/ DoPlayerDestroy
  \/ ClockTick

SpecPlayer == InitPlayer /\ [][NextPlayer]_vars

----------------------------------------------------------------------------
(* The Game's operations as actions *)

\* What _gameLoop reads: the game is in play, or paused
Running(g) == g.isRunning /\ ~g.isPaused /\ ~g.destroyed

Paused(g) == g.isRunning /\ g.isPaused /\ ~g.destroyed

\* The values of gameState the code and its tests use
GameStates == {"menu", "playing", "paused", "gameOver", "stopped"}

\* deltaTime of a frame, in 60fps frames: Math.min(currentTime -
\* lastFrameTime, maxDeltaTime), maxDeltaTime being 1000 / 30 ms
FrameDeltaTimes == {1, 2}

\* What an update draws from outside the Game: the zone each moving fish ends
\* in, the fish checkFishCollision finds on the hook and the ones the random
\* draw of catchFish lets go
MovingFish ==
  {f \in Range(game.activeFish) :
     fish[f].isActive /\ ~fish[f].isCaught /\ ~fish[f].destroyed}

HookableFish ==
  IF player.isCasting THEN {f \in Range(game.activeFish) : fish[f].isActive} ELSE {}

\* The next call of update(deltaTime) keeps the play time, and the time since
\* the last spawn (which a restart does not reset), within the bound
WithinPlayTime(deltaTime) ==
  /\ game.stats.playTime + deltaTime <= MaxPlayTime
  /\ game.lastFishSpawn + deltaTime <= MaxPlayTime

\* A call that queues a frame callback keeps the pending ones within the bound
WithinPending == game.destroyed \/ game.isRunning \/ Cardinality(raf) < MaxPending

DoStart ==
  /\ WithinPending
  /\ \E moves \in [MovingFish -> {"field", "off"}], hits \in SUBSET HookableFish :
       \E misses \in SUBSET hits :
         Commit(GameStart(World, moves, hits, misses), "start", 0)

DoPause == Commit(GamePause(World), "pause", 0)

DoResume == Commit(GameResume(World), "resume", 0)

DoStop == Commit(GameStop(World), "stop", 0)

DoRestart ==
  /\ WithinPending
  /\ Commit(GameRestart(World, <<>>, {}, {}), "restart", 0)

DoSetState ==
  \E state \in GameStates : Commit(GameSetState(World, state), "setState", 0)

DoGameOver == Commit(GameOver(World), "_gameOver", 0)

DoGameDestroy == Commit(GameDestroy(World), "destroy", 0)

\* The browser runs a pending frame callback
Frame ==
  \E id \in raf, deltaTime \in FrameDeltaTimes :
    /\ (game.isRunning /\ ~game.isPaused /\ ~game.destroyed) => WithinPlayTime(deltaTime)
    /\ \E moves \in [MovingFish -> {"field", "off"}], hits \in SUBSET HookableFish :
         \E misses \in SUBSET hits :
           Commit(GameLoop([World EXCEPT !.raf = @ \ {id}], deltaTime,
                           moves, hits, misses),
                  "frame", id)

NextLoop ==
  \/ DoStart
  \/ DoPause
  \/ DoResume
  \/ DoStop
  \/ DoRestart
  \/ DoSetState
  \/ DoGameOver
  \/ DoGameDestroy
  \/ Frame

\* The Game's loop and its lifecycle calls; the Player is left alone
SpecLoop == Init /\ [][NextLoop]_vars

\* The browser runs a pending frame callback, and player.update or the
\* canvas throws while the frame is processed
FrameFault ==
  \E id \in raf, deltaTime \in FrameDeltaTimes, fault \in {"update", "render"} :
    /\ Running(game)
    /\ WithinPlayTime(deltaTime)
    /\ Commit(GameLoop([World EXCEPT !.raf = @ \ {id}, !.fault = fault],
                       deltaTime, <<>>, {}, {}),
              "frame", id)

NextFault ==
  \/ NextLoop
  \/ FrameFault

\* The Game's loop with frames that throw
SpecFault == Init /\ [][NextFault]_vars

\* game._spawnFish(), as the Game's tests call it
\* (recorded with the number of fish in play at the call)
DoSpawnFish == Commit(SpawnFish(World), "_spawnFish", Len(game.activeFish))

\* game.player.catchFish(fish) on a fish in play or on the hook
DoCatchActiveFish ==
  \E f \in Range(game.activeFish) \cup Range(player.caughtFish), missed \in BOOLEAN :
    /\ game.stats.fishCaught < MaxCatches
    /\ Commit(catchFish(World, f, missed), "catchFish", f)

\* game.player.handleFishEscape(fish) on a fish on the hook
DoCaughtFishEscape ==
  \E f \in Range(player.caughtFish), escapes \in BOOLEAN :
    Commit(handleFishEscape(World, f, escapes), "handleFishEscape", f)

\* game.update(deltaTime)
DoGameUpdate ==
  \E deltaTime \in FrameDeltaTimes :
    /\ WithinPlayTime(deltaTime)
    /\ HookableFish # {} => game.stats.fishCaught < MaxCatches
    /\ \E moves \in [MovingFish -> {"field", "off"}], hits \in SUBSET HookableFish :
         \E misses \in SUBSET hits :
           Commit(GameUpdate(World, deltaTime, moves, hits, misses), "update", 0)

NextCatch ==
  \/ DoSpawnFish
  \/ DoCatchActiveFish
  \/ DoCaughtFishEscape
  \/ DoCast
  \/ DoStartReeling
  \/ DoGameUpdate
  \/ ClockTick

\* The Game's fish, spawned, caught by its Player and pooled again
SpecCatch == Init /\ [][NextCatch]_vars

\* game._handleFishCaught({fish, score}), as the Player's fishCaught event and
\* the Game's tests call it
DoHandleFishCaught ==
  \E f \in PlayerFish :
    /\ game.stats.fishCaught < MaxCombo
    /\ Commit(HandleFishCaught(World, f, FishScore), "_handleFishCaught", f)

NextCombo ==
  \/ DoHandleFishCaught
  \/ DoGameUpdate
  \/ DoRestart
  \/ ClockTick

\* The Game's combo: catches in a row, the clock and the updates that end it
SpecCombo == Init /\ [][NextCombo]_vars

NextSpawn ==
  \/ DoSpawnFish
  \/ DoCatchActiveFish
  \/ DoCaughtFishEscape
  \/ DoGameUpdate
  \/ DoGameDestroy
  \/ ClockTick

\* The Game's fish spawned, caught, pooled again and destroyed (destroy()
\* empties the pool), with the Player's line left alone
SpecSpawn == Init /\ [][NextSpawn]_vars

----------------------------------------------------------------------------
(* The pointer events of the canvas as actions *)

\* The positions of the pointers: one in the casting zone and one in the
\* reeling zone, more than a swipe apart
TouchPoints == {100, 300}

Tracked(id) == ActiveHas(tc.activeTouches, id)

\* The canvas dispatches an event to the listeners registered for it
Listening(event) == \E h \in tc.handlers : h.event = event

\* A call that may cast keeps the number of casts within its bound
WithinCasts == player.isCasting \/ player.isReeling \/ player.castCount < MaxCasts

\* The world returned by a call that was given a position becomes the state
CommitAt(w, op, arg, y) ==
  \E v \in {w} :
    /\ player' = v.player
    /\ fish' = v.fish
    /\ game' = v.game
    /\ raf' = v.raf
    /\ tc' = Settle(v.tc)
    /\ emitted' = v.emitted
    /\ performed' = v.performed
    /\ lastOp' = [op |-> op, arg |-> arg, y |-> y]

\* touchstart of a touch point that is not down
TouchStart ==
  \E id \in TouchIds, y \in TouchPoints :
    /\ Listening("touchstart")
    /\ ~Tracked(id)
    /\ Cardinality(tc.timers) < MaxTimers
    /\ Commit(HandleTouchStart(World, id, y), "touchstart", id)

\* touchmove of a touch point that is down
TouchMove ==
  \E id \in TouchIds, y \in TouchPoints :
    /\ Listening("touchmove")
    /\ Tracked(id)
    /\ Commit(HandleTouchMove(World, id, y), "touchmove", id)

\* touchend of a touch point that is down
TouchEnd ==
  \E id \in TouchIds, y \in TouchPoints :
    /\ Listening("touchend")
    /\ Tracked(id)
    /\ WithinCasts
    /\ CommitAt(HandleTouchEnd(World, id, y), "touchend", id, y)

\* touchcancel of a touch point that is down
TouchCancel ==
  \E id \in TouchIds :
    /\ Listening("touchcancel")
    /\ Tracked(id)
    /\ Commit(HandleTouchCancel(World, id), "touchcancel", id)

\* mousedown, mousemove and mouseup (or mouseleave) on the canvas
MouseDown ==
  \E y \in TouchPoints :
    /\ Listening("mousedown")
    /\ ~tc.mouseDown
    /\ Cardinality(tc.timers) < MaxTimers
    /\ Commit(HandleMouseDown(World, y), "mousedown", MouseId)

MouseMove ==
  \E y \in TouchPoints :
    /\ Listening("mousemove")
    /\ Commit(HandleMouseMove(World, y), "mousemove", MouseId)

MouseUp ==
  /\ Listening("mouseup")
  /\ WithinCasts
  /\ Commit(HandleMouseUp(World), "mouseup", MouseId)

\* A long-press timer whose delay has passed runs its callback
LongPressTimer ==
  \E t \in tc.timers :
    /\ t.left = 0
    /\ Commit(LongPressTimeout(World, t.handle), "longPressTimer",
              tc.objects[t.obj].id)

\* touchController._cleanupInactiveTouches(Date.now()), as the tests call it
DoCleanupInactiveTouches ==
  Commit(CleanupInactiveTouches(World), "_cleanupInactiveTouches", NoId)

NextTouch ==
  \/ TouchStart
  \/ TouchMove
  \/ TouchEnd
  \/ TouchCancel
  \/ LongPressTimer
  \/ DoCleanupInactiveTouches
  \/ ClockTick

\* The TouchController of a Game and the touch events of its canvas
SpecTouch == Init /\ [][NextTouch]_vars

NextCancel ==
  \/ TouchStart
  \/ TouchMove
  \/ TouchCancel
  \/ LongPressTimer
  \/ ClockTick

\* Touch points that are all cancelled
SpecCancel == Init /\ [][NextCancel]_vars

\* The timers and the clock run on their own; a pointer event, and a cleanup
\* by the host, need not come
SpecTouchFair ==
  SpecTouch /\ WF_vars(LongPressTimer) /\ WF_vars(ClockTick)

NextHybrid ==
  \/ TouchStart
  \/ TouchEnd
  \/ MouseDown
  \/ MouseMove
  \/ MouseUp
  \/ LongPressTimer
  \/ ClockTick

\* The same with a mouse: a device with both
SpecHybrid == Init /\ [][NextHybrid]_vars
\* Touch points and a mouse on the canvas of a Game that is started, paused
\* and resumed
NextPausedTouch ==
  \/ DoStart
  \/ DoPause
  \/ DoResume
  \/ TouchStart
  \/ TouchEnd
  \/ TouchCancel
  \/ MouseDown
  \/ MouseUp
  \/ LongPressTimer
  \/ ClockTick

SpecPausedTouch == Init /\ [][NextPausedTouch]_vars

----------------------------------------------------------------------------
(* More touch points than the controller tracks *)

\* The identifiers of two fingers, which together with the mouse are one
\* pointer more than maxTouches
PoolTouchIds == {1, 2}

\* The position of these pointers: the one in the casting zone
PoolTouchPoint == CHOOSE y \in TouchPoints : isInCastingZone(y)

\* A touchstart arms a timer unless it is ignored
WithinTimers ==
  Len(tc.activeTouches) >= maxTouches \/ Cardinality(tc.timers) < MaxPoolTimers

\* touchstart, touchmove, touchend and touchcancel of either finger
PoolTouchStart ==
  \E id \in PoolTouchIds :
    /\ Listening("touchstart")
    /\ ~Tracked(id)
    /\ WithinTimers
    /\ Commit(HandleTouchStart(World, id, PoolTouchPoint), "touchstart", id)

PoolTouchMove ==
  \E id \in PoolTouchIds :
    /\ Listening("touchmove")
    /\ Tracked(id)
    /\ Commit(HandleTouchMove(World, id, PoolTouchPoint), "touchmove", id)

PoolTouchEnd ==
  \E id \in PoolTouchIds :
    /\ Listening("touchend")
    /\ Tracked(id)
    /\ CommitAt(HandleTouchEnd(World, id, PoolTouchPoint), "touchend", id,
                PoolTouchPoint)

PoolTouchCancel ==
  \E id \in PoolTouchIds :
    /\ Listening("touchcancel")
    /\ Tracked(id)
    /\ Commit(HandleTouchCancel(World, id), "touchcancel", id)

\* mousedown and mouseup at the same position
PoolMouseDown ==
  /\ Listening("mousedown")
  /\ ~tc.mouseDown
  /\ WithinTimers
  /\ Commit(HandleMouseDown(World, PoolTouchPoint), "mousedown", MouseId)

NextPool ==
  \/ PoolTouchStart
  \/ PoolTouchMove
  \/ PoolTouchEnd
  \/ PoolTouchCancel
  \/ PoolMouseDown
  \/ MouseUp
  \/ LongPressTimer
  \/ DoCleanupInactiveTouches
  \/ ClockTick

\* Two fingers and a mouse on a controller that tracks maxTouches pointers
SpecPool == Init /\ [][NextPool]_vars

----------------------------------------------------------------------------
(* destroy() of each component, once and again *)

\* The calls of destroy(): of the Game, of its Player, of its TouchController
\* and of one of its Fish
DestroyCalls == {"game.destroy", "player.destroy", "touchController.destroy",
                 "fish.destroy"}

\* A destroy() is recorded as "again" when the call before it was the same
\* destroy() of the same component
DestroyOp(call, arg) ==
  IF lastOp.op \in {call, "again " \o call} /\ lastOp.arg = arg
  THEN "again " \o call
  ELSE call

GameDestroyCall ==
  Commit(GameDestroy(World), DestroyOp("game.destroy", 0), 0)

PlayerDestroyCall ==
  Commit(PlayerDestroy(World), DestroyOp("player.destroy", 0), 0)

TouchDestroyCall ==
  Commit(TouchDestroy(World), DestroyOp("touchController.destroy", 0), 0)

FishDestroyCall ==
  \E f \in PlayerFish :
    Commit(FishDestroy(World, f), DestroyOp("fish.destroy", f), f)

NextDestroy ==
  \/ DoStart
  \/ DoSpawnFish
  \/ DoCatchActiveFish
  \/ TouchStart
  \/ LongPressTimer
  \/ ClockTick
  \/ GameDestroyCall
  \/ PlayerDestroyCall
  \/ TouchDestroyCall
  \/ FishDestroyCall

\* A Game in play, its pointers, and the destroy() of each component
SpecDestroy == Init /\ [][NextDestroy]_vars

----------------------------------------------------------------------------
(* The Game's public calls, before and after destroy() *)

\* game.render()
DoGameRender == Commit(GameRender(World), "render", 0)

NextPublic == NextLoop \/ DoGameUpdate \/ DoGameRender

\* The Game's lifecycle calls and its loop, with update() and render() also
\* called from outside the loop
SpecPublic == Init /\ [][NextPublic]_vars

----------------------------------------------------------------------------
(* Subscribers of the Game's events *)

\* The events a caller subscribes to
Events == {"test", "destroyed"}

\* game.on(event, callback)
DoOn ==
  \E event \in Events, callback \in Callbacks :
    /\ event \in DOMAIN game.eventListeners =>
         Len(game.eventListeners[event]) < MaxListeners
    /\ Commit(GameOn(World, event, callback), "on", 0)

\* game.off(event, callback)
DoOff ==
  \E event \in Events, callback \in Callbacks :
    Commit(GameOff(World, event, callback), "off", 0)

\* game._emit('test'), as the Game's tests call it
DoEmit == Commit(GameEmitToListeners(World, "test"), "_emit", 0)

NextEmit == DoOn \/ DoOff \/ DoEmit \/ DoGameDestroy

\* A Game, the callbacks subscribed to its events, and its destroy()
SpecEmit == Init /\ [][NextEmit]_vars

----------------------------------------------------------------------------
(* Power-ups of each kind *)

\* The other power-up of the Player's tests: reeling twice as fast
FasterReeling ==
  [type |-> "faster_reeling", duration |-> 1, elapsed |-> 0,
   effect |-> [maxLineLength |-> 0, reelingSpeed |-> 2 * DefaultReelingSpeed,
               castingPower |-> 0]]

\* A power-up of the third property applyPowerUp knows: castingPower, one and
\* a half times the default maximum
PowerCast ==
  [type |-> "power_cast", duration |-> 1, elapsed |-> 0,
   effect |-> [maxLineLength |-> 0, reelingSpeed |-> 0,
               castingPower |-> (DefaultMaxCastingPower * 3) \div 2]]

\* player.applyPowerUp(powerUp), with a power-up of any kind
DoApplyPowerUpOfAnyKind ==
  \E powerUp \in {StrongerLine, FasterReeling, PowerCast} :
    /\ Len(player.activePowerUps) < MaxPowerUps
    /\ Commit(applyPowerUp(World, powerUp), "applyPowerUp", 0)

NextPowerUp ==
  \/ DoApplyPowerUpOfAnyKind
  \/ DoPlayerUpdate
  \/ DoCast
  \/ DoStartReeling
  \/ DoPlayerReset
  \/ ClockTick

\* A Player on its own, with power-ups of each kind
SpecPowerUp == InitPlayer /\ [][NextPowerUp]_vars

----------------------------------------------------------------------------
(* The line of a Player, set as its tests set it *)

\* 50 pixels, in tenths
LineExcess == 500

\* player.lineLength = player.maxLineLength + 50
DoSetLineLength ==
  Commit([World EXCEPT !.player.lineLength = player.maxLineLength + LineExcess],
         "lineLength =", 0)

NextLine ==
  \/ DoCast
  \/ DoStartReeling
  \/ DoStopReeling
  \/ DoPlayerUpdate
  \/ DoPlayerReset
  \/ DoSetLineLength

\* A Player on its own, its casts and updates, and its lineLength assigned
\* from outside
SpecLine == InitPlayer /\ [][NextLine]_vars

----------------------------------------------------------------------------
(* A Player that casts, hooks fish while casting, reels and stops reeling *)

\* player.catchFish(fish) while the line is cast
DoCatchWhileCasting ==
  \E f \in PlayerFish, missed \in BOOLEAN :
    /\ player.isCasting
    /\ player.totalScore < 2 * FishScore * MaxCatches
    /\ Commit(catchFish(World, f, missed), "catchFish", f)

\* deltaTime of player.update, in 60fps frames: 50 ms and the 250 ms of a
\* direct call
AnglerDeltaTimes == {3, 15}

\* player.update(deltaTime)
DoAnglerUpdate ==
  \E deltaTime \in AnglerDeltaTimes :
    Commit(PlayerUpdate(World, deltaTime), "update", 0)

NextAngler ==
  \/ DoCast
  \/ DoStartReeling
  \/ DoStopReeling
  \/ DoAnglerUpdate
  \/ DoCatchWhileCasting
  \/ DoPlayerReset

\* A Player on its own, with catches made only while casting
SpecAngler == InitPlayer /\ [][NextAngler]_vars
----------------------------------------------------------------------------
(* A Player that reels in its catch, frame after frame *)

\* The fish handed to the Player
HookedFish == 1..MaxHooked

InitReel ==
  /\ player = NewPlayer(GamePlayerOptions, {})
  /\ fish = [f \in HookedFish |-> NewFish]
  /\ game = NewGame
  /\ raf = {}
  /\ tc = NewTouchController
  /\ emitted = <<>>
  /\ performed = <<>>
  /\ lastOp = NoOp

\* player.catchFish(fish) as soon as the line is cast, of the fish in their
\* order
DoHookFish ==
  \E f \in HookedFish, missed \in BOOLEAN :
    /\ player.isCasting /\ player.lineLength = 0
    /\ f = Len(player.caughtFish) + 1
    /\ Commit(catchFish(World, f, missed), "catchFish", f)

\* player.update(deltaTime) of a frame at 60 frames per second (recorded with
\* the parity of the frames since the last other call, which tells a frame
\* from the one before it)
DoReelUpdate ==
  \E deltaTime \in {1} :
    Commit(PlayerUpdate(World, deltaTime), "update",
           IF lastOp.op = "update" THEN 1 - lastOp.arg ELSE 0)

NextReel ==
  \/ DoCast
  \/ DoHookFish
  \/ DoStartReeling
  \/ DoReelUpdate

\* A Player on its own with several fish on its hook
SpecReel == InitReel /\ [][NextReel]_vars

\* A step of DoReelUpdate, told by what it records: no other action of
\* NextReel records an update
UpdateCalled == \E parity \in {0, 1} : lastOp' = [op |-> "update", arg |-> parity]

\* update() keeps being called: the frames of the game loop go on, and
\* DoReelUpdate is enabled in every state
SpecReelFair == SpecReel /\ WF_lastOp(UpdateCalled)

----------------------------------------------------------------------------
(* A Fish on its own *)

FishSizes == {1, 2, 32}

FishScales == {5, 10}

FishTypes == {"common", "rare", "legendary"}

Behaviors == {"normal", "aggressive", "erratic"}

\* The options of new Fish(options)
FishOptions ==
  [width : FishSizes, height : FishSizes, scale : FishScales,
   fishType : FishTypes, behavior : Behaviors]

\* A Fish constructed with any of the options, next to the Game's
InitFish ==
  /\ player = NewPlayer(GamePlayerOptions, {})
  /\ \E options \in FishOptions :
       fish = [f \in FishIds |-> IF f \in PlayerFish THEN NewFishOf(options)
                                 ELSE NewFish]
  /\ game = NewGame
  /\ raf = {}
  /\ tc = NewTouchController
  /\ emitted = <<>>
  /\ performed = <<>>
  /\ lastOp = NoOp

DoFishCatch == \E f \in PlayerFish : Commit(FishCatch(World, f), "fish.catch", f)

DoFishEscape == \E f \in PlayerFish : Commit(FishEscape(World, f), "fish.escape", f)

DoFishReset == \E f \in PlayerFish : Commit(FishReset(World, f), "fish.reset", f)

DoFishSetBehavior ==
  \E f \in PlayerFish, behavior \in Behaviors :
    Commit(FishSetBehavior(World, f, behavior), "fish.setBehavior", f)

DoFishAdaptToViewport ==
  \E f \in PlayerFish :
    Commit(FishAdaptToViewport(World, f), "fish.adaptToViewport", f)

DoFishUpdate ==
  \E f \in PlayerFish, zone \in {"field", "off"} :
    Commit(FishUpdate(World, f, zone), "fish.update", f)

NextFish ==
  \/ DoFishCatch
  \/ DoFishEscape
  \/ DoFishReset
  \/ DoFishUpdate
  \/ DoFishSetBehavior
  \/ DoFishAdaptToViewport
  \/ FishDestroyCall

\* A Fish of any size, type and behavior, and the calls that change it
SpecFish == InitFish /\ [][NextFish]_vars

----------------------------------------------------------------------------
(* MathUtils' collision checks *)

MaxRadius == 3

\* The circles of the checks: the first at the origin, the second around it,
\* at the distances 0 .. 5 (3, 4 lies at 5) and between them
Circles1 == [x : {0}, y : {0}, radius : (-MaxRadius)..MaxRadius]

Circles2 == [x : 0..4, y : {0, 1, 4}, radius : (-MaxRadius)..MaxRadius]

\* MathUtils.circleCollision(circle1, circle2), its arguments and what it
\* returns
DoCircleCollision ==
  \E circle1 \in Circles1, circle2 \in Circles2 :
    /\ lastOp' = [op |-> "circleCollision", arg |-> 0,
                  circle1 |-> circle1, circle2 |-> circle2,
                  returns |-> circleCollision(circle1, circle2)]
    /\ emitted' = <<>>
    /\ performed' = <<>>
    /\ UNCHANGED <<player, fish, game, raf, tc>>

\* MathUtils.fastCircleCollision(circle1, circle2)
DoFastCircleCollision ==
  \E circle1 \in Circles1, circle2 \in Circles2 :
    /\ lastOp' = [op |-> "fastCircleCollision", arg |-> 0,
                  circle1 |-> circle1, circle2 |-> circle2,
                  returns |-> fastCircleCollision(circle1, circle2)]
    /\ emitted' = <<>>
    /\ performed' = <<>>
    /\ UNCHANGED <<player, fish, game, raf, tc>>

NextCircles == DoCircleCollision \/ DoFastCircleCollision

\* Calls of the two collision checks with circles of any radius
SpecCircles == Init /\ [][NextCircles]_vars

----------------------------------------------------------------------------
(* The fish pool of a Game with several fish in play *)

\* new Game({canvas, maxFish: SchoolMaxFish}) and its Player
InitSchool ==
  /\ player = NewPlayer(GamePlayerOptions, GameListeners)
  /\ fish = [f \in 1..(SchoolMaxFish * 2) |-> NewFish]
  /\ game = NewGameWith(SchoolMaxFish)
  /\ raf = {}
  /\ tc = NewTouchController
  /\ emitted = <<>>
  /\ performed = <<>>
  /\ lastOp = NoOp

\* fish.update(deltaTime) of a fish in play: it stays on the playfield or
\* leaves it
DoActiveFishUpdate ==
  \E f \in Range(game.activeFish), zone \in {"field", "off"} :
    Commit(FishUpdate(World, f, zone), "fish.update", f)

\* game._cleanupFish()
DoCleanupFish == Commit(CleanupFish(World), "_cleanupFish", 0)

\* game._returnFishToPool(fish) with a fish in play
DoReturnFishToPool ==
  \E f \in Range(game.activeFish) :
    Commit(ReturnFishToPool(World, f), "_returnFishToPool", f)

\* game._handleFishCaught({fish, score}) with a fish in play
DoHandleActiveFishCaught ==
  \E f \in Range(game.activeFish) :
    /\ game.stats.fishCaught < MaxCatches
    /\ Commit(HandleFishCaught(World, f, FishScore), "_handleFishCaught", f)

\* game._resetGameState()
DoResetGameState == Commit(ResetGameState(World), "_resetGameState", 0)

\* game.update(deltaTime) after the spawn interval: the tick spawns a fish
\* (recorded with its deltaTime)
DoSpawningUpdate ==
  /\ game.stats.playTime < MaxPlayTime * fishSpawnInterval
  /\ \E moves \in [MovingFish -> {"field", "off"}] :
       Commit(GameUpdate(World, fishSpawnInterval, moves, {}, {}), "update",
              fishSpawnInterval)

NextSchool ==
  \/ DoSpawnFish
  \/ DoSpawningUpdate
  \/ DoActiveFishUpdate
  \/ DoCleanupFish
  \/ DoReturnFishToPool
  \/ DoHandleActiveFishCaught
  \/ DoResetGameState

\* The pool and the fish in play of a Game with maxFish above one
SpecSchool == InitSchool /\ [][NextSchool]_vars

----------------------------------------------------------------------------
(* Properties of the Player *)

Emitted(component, event) == Includes(emitted, <<component, event>>)

Idle(p) == ~p.isCasting /\ ~p.isReeling

\* The fields cast() writes
CastFields(p) ==
  <<p.hookX, p.hookY, p.hookVelocity, p.castingPower, p.castingAngle, p.castCount,
    p.lineBroken, p.isCasting, p.isReeling>>

\* C1: in every reachable Player state, whatever sequence of cast,
\* startReeling, stopReeling, update, catchFish, handleFishEscape, applyPowerUp,
\* reset and destroy led to it, isCasting and isReeling are not both true.
C1_NeverCastingAndReeling == ~(player.isCasting /\ player.isReeling)

\* C1 witness: the player went from casting to reeling with a fish on the hook
C1_Witness ==
  /\ player.isReeling /\ ~player.isCasting
  /\ lastOp.op = "startReeling"
  /\ Len(player.caughtFish) > 0

\* C2: after every update() tick and every public operation of the Player,
\* lineLength <= maxLineLength unless lineBroken is true, also when
\* maxLineLength was changed by a power-up being applied or expiring.
C2_LineWithinMax == player.lineLength <= player.maxLineLength \/ player.lineBroken

\* The break step of an update: the line was not broken, and is now
BrokeNow == lastOp'.op = "update" /\ Includes(emitted', <<"Player", "lineBroken">>)

\* What a break leaves: the caught fish released, no fish on the hook, the
\* player idle and lineBroken set
BreakReleases ==
  BrokeNow =>
    /\ \A f \in Range(player.caughtFish) : ~fish'[f].isCaught
    /\ player'.caughtFish = <<>>
    /\ Idle(player') /\ player'.lineBroken

\* C3 (amended): whenever the line breaks, every fish of the caught list is
\* released via escape() and no longer marked caught, the caught list is empty
\* and the player is idle with lineBroken true; the player stays idle with
\* lineBroken true until the next cast() or reset().
C3_BreakUntilCastOrReset ==
  [][/\ BreakReleases
     /\ (player.lineBroken /\ lastOp'.op \notin {"cast", "reset"}) =>
           (player'.lineBroken /\ Idle(player'))
     /\ player'.lineBroken => Idle(player')]_vars

\* C3 as stated: ... the player is idle with lineBroken true until the next
\* cast().
C3_BreakUntilCast ==
  [][/\ BreakReleases
     /\ (player.lineBroken /\ lastOp'.op # "cast") =>
           (player'.lineBroken /\ Idle(player'))]_vars

\* C3 witness: the line broke in this update with a fish on the hook, which
\* escaped
C3_Witness ==
  /\ lastOp.op = "update"
  /\ Emitted("Player", "lineBroken") /\ Emitted("Fish", "escaped")
  /\ player.lineBroken /\ player.caughtFish = <<>> /\ Idle(player)

\* C4: cast(power, angle) called while the player is casting or reeling is a
\* no-op: hook position and velocity, castingPower, castingAngle, castCount,
\* lineBroken and the mode flags are unchanged and no castStarted is emitted.
C4_CastWhileBusyIsNoOp ==
  [][(lastOp'.op = "cast" /\ (player.isCasting \/ player.isReeling)) =>
        /\ CastFields(player') = CastFields(player)
        /\ player' = player
        /\ ~Includes(emitted', <<"Player", "castStarted">>)]_vars

\* C4 witness: cast() was called on a player whose hook is away from the rod,
\* with an angle and a power other than the ones of the cast under way
C4_Witness ==
  /\ lastOp.op = "cast"
  /\ player.isReeling
  /\ player.lineLength > 0
  /\ emitted = <<>>
  /\ player.castingPower = 50 /\ player.castingAngle = 2

C6_CatchIdempotent ==
  [][/\ (lastOp'.op = "catchFish"
           /\ (Includes(player.caughtFish, lastOp'.arg) \/ fish[lastOp'.arg].isCaught)) =>
           /\ player'.caughtFish = player.caughtFish
           /\ player'.totalScore = player.totalScore
           /\ player'.fishesCaught = player.fishesCaught
           /\ ~Includes(emitted', <<"Player", "fishCaught">>)
     /\ \A i, j \in 1..Len(player'.caughtFish) :
           player'.caughtFish[i] = player'.caughtFish[j] => i = j]_vars

\* C6 witness: catchFish was called on the fish already on the hook
C6_Witness ==
  /\ lastOp.op = "catchFish"
  /\ emitted = <<>>
  /\ Includes(player.caughtFish, lastOp.arg)
  /\ fish[lastOp.arg].isCaught
  /\ player.totalScore = FishScore

----------------------------------------------------------------------------
(* Properties of the Game's lifecycle and loop *)

Performed(call) == Includes(performed, call)

\* The call changed nothing and emitted nothing
NoEffect ==
  /\ game' = game /\ player' = player /\ fish' = fish /\ raf' = raf
  /\ emitted' = <<>>

\* pause(), resume() and start() act only from the flags their guards read
GuardedCalls ==
  /\ (lastOp'.op = "pause" /\ ~Running(game)) => NoEffect
  /\ (lastOp'.op = "resume" /\ ~Paused(game)) => NoEffect
  /\ (lastOp'.op = "start" /\ game.isRunning) => NoEffect

StateEdges ==
  {<<"menu", "playing">>, <<"playing", "paused">>, <<"paused", "playing">>,
   <<"playing", "gameOver">>, <<"gameOver", "playing">>, <<"stopped", "playing">>}
    \cup {<<state, "stopped">> : state \in {"menu", "playing", "paused", "gameOver"}}

NoTickAfterStop ==
  /\ (lastOp'.op = "frame" /\ (~game.isRunning \/ game.destroyed)) =>
        performed' = <<>>
  /\ lastOp'.op = "stop" => (~game'.isRunning \/ game'.destroyed)
  /\ (~game.isRunning /\ game'.isRunning) => lastOp'.op \in {"start", "restart"}
  /\ game.destroyed => game'.destroyed

\* When stop() returns the Game holds no handle and the handle it held is no
\* longer pending
HandleReleased ==
  lastOp'.op = "stop" =>
    (game'.animationFrameId = 0 /\ game.animationFrameId \notin raf')

\* C9: after stop() returns, no frame callback performs update() or render()
\* until start() is called again, and the loop's scheduling handle has been
\* cancelled and cleared.
C9_StopEndsLoop == [][NoTickAfterStop /\ HandleReleased]_vars

\* The first half of C9 alone
C9_NoTickAfterStop == [][NoTickAfterStop]_vars

\* C10: while the game is paused, every frame callback performs no update()
\* and no render() but still schedules the next frame; after resume() a frame
\* is pending, and the next frame callback runs update() and render() again.
C10_PausedFramesOnlySchedule ==
  [][/\ (lastOp'.op = "frame" /\ Paused(game)) =>
          /\ performed' = <<"requestAnimationFrame">>
          /\ game'.animationFrameId \in raf'
          /\ game'.stats = game.stats /\ player' = player /\ fish' = fish
     /\ (lastOp'.op = "frame" /\ Running(game)) =>
          performed' = <<"update", "render", "requestAnimationFrame">>
     /\ (lastOp'.op = "resume" /\ Paused(game)) =>
          (Running(game') /\ game'.animationFrameId \in raf')
     /\ Paused(game') => game'.animationFrameId \in raf']_vars

\* C10 witness: a frame callback ran while the game was paused
C10_Witness ==
  /\ lastOp.op = "frame"
  /\ Paused(game) /\ game.gameState = "paused"
  /\ performed = <<"requestAnimationFrame">>
  /\ game.stats.playTime > 0

----------------------------------------------------------------------------
(* Properties of the fish in play *)

\* C7: from a successful catch until reel completion or escape the caught
\* fish is not removed from play: while it is in the Player's caught list it
\* is not in the Game's free pool, and a spawn does not hand it out again.
C7_CaughtFishNotPooled ==
  [][/\ \A f \in Range(player'.caughtFish) : f \notin Range(game'.fishPool)
     /\ lastOp'.op = "_spawnFish" =>
          \A f \in Range(player.caughtFish) :
             f \in Range(game'.activeFish) => f \in Range(game.activeFish)]_vars

\* A fish on the hook was handed out again by a spawn
C7_CaughtFishSpawnedAgain ==
  /\ lastOp.op = "_spawnFish"
  /\ \E f \in Range(player.caughtFish) : f \in Range(game.activeFish)

----------------------------------------------------------------------------
(* Properties of Game.destroy *)

\* C11: destroy() on a running game stops the loop: afterwards isRunning is
\* false, the pending animation-frame request has been cancelled, and no
\* further frame callback is scheduled.
C11_DestroyStopsLoop ==
  [][/\ (lastOp'.op = "destroy" /\ game.isRunning) =>
          /\ ~game'.isRunning
          /\ game.animationFrameId \notin raf'
          /\ game'.animationFrameId = 0
     /\ (lastOp'.op = "frame" /\ game.destroyed) =>
          ~Includes(performed', "requestAnimationFrame")]_vars

\* The last third of C11 alone: a frame callback of a destroyed game schedules
\* nothing
C11_NoFrameScheduledAfterDestroy ==
  [][(lastOp'.op = "frame" /\ game.destroyed) => (performed' = <<>> /\ raf' \subseteq raf)]_vars

\* A destroyed game is still running, with its frame request pending
C11_DestroyedGameStillRunning ==
  /\ lastOp.op = "destroy"
  /\ game.destroyed /\ game.isRunning
  /\ game.animationFrameId \in raf

\* A frame of a game in play that throws leaves the loop scheduled
FaultyFrameSchedules(fault) ==
  (lastOp'.op = "frame" /\ Running(game)
     /\ (fault = "update" => Includes(performed', "throw"))
     /\ (fault = "render" => Includes(performed', "console.warn"))) =>
    /\ Includes(performed', "requestAnimationFrame")
    /\ game'.animationFrameId \in raf'

\* C12: an exception thrown while one frame is processed, in update() or in
\* render(), never halts the per-frame loop: the next frame is still
\* scheduled, so that later ticks run.
C12_FrameErrorKeepsLoop ==
  [][FaultyFrameSchedules("update") /\ FaultyFrameSchedules("render")]_vars

\* The render half of C12 alone
C12_RenderErrorKeepsLoop == [][FaultyFrameSchedules("render")]_vars

\* update() threw in a frame: the game is running with no frame pending
C12_LoopHalted ==
  /\ lastOp.op = "frame"
  /\ Includes(performed, "throw")
  /\ Running(game) /\ raf = {}

C13_WitnessFull ==
  lastOp = [op |-> "_spawnFish", arg |-> maxFish] /\ Len(game.fishPool) > 0

C13_WitnessPoolEmpty ==
  /\ lastOp.op = "_spawnFish" /\ lastOp.arg < maxFish
  /\ Len(game.fishPool) = 0 /\ Len(game.activeFish) = lastOp.arg

\* comboMultiplier as C14 gives it, in tenths
ComboMultiplierOf(comboCount) ==
  IF comboCount = 0 THEN 10 ELSE Min(10 + (comboCount - 1), 30)

\* C14: comboMultiplier is 1 when comboCount is 0 and
\* min(1 + 0.1 * (comboCount - 1), 3) otherwise, so it is within [1, 3]; and
\* once the idle window since the last catch has elapsed, the update() that
\* follows leaves it at 1.
C14_ComboMultiplier ==
  [][/\ game'.comboMultiplier = ComboMultiplierOf(game'.comboCount)
     /\ game'.comboMultiplier >= 10 /\ game'.comboMultiplier <= 30
     /\ (lastOp'.op = "update" /\ game.comboIdle > comboTimeout /\ ~game.destroyed) =>
          game'.comboMultiplier = 10]_vars

\* The multiplier is at its cap with more catches than the cap needs
C14_Witness ==
  /\ game.comboCount > 21
  /\ game.comboMultiplier = 30

\* An update() ended a combo
C14_WitnessComboLost ==
  /\ lastOp.op = "update"
  /\ Includes(emitted, <<"Game", "comboLost">>)
  /\ game.comboMultiplier = 10

----------------------------------------------------------------------------
(* Properties of the TouchController *)

GestureEmitted(kind) == Includes(emitted, <<"TouchController", "gesture", kind>>)

TouchEmitted(event) == Includes(emitted, <<"TouchController", event, "">>)

\* The touch object that tracks the pointer id
TouchObjectOf(id) == tc.objects[ActiveGet(tc.activeTouches, id)]

\* The timer whose callback this step runs
FiredTimer == CHOOSE t \in tc.timers : t \notin tc'.timers

\* C15: the long-press timer of a pointer is disarmed when the pointer goes
\* up, is cancelled or moves beyond the threshold, so that a long-press
\* gesture is emitted only for a pointer that is down and has been down for
\* at least longPressDelay since its own pointer-down.
C15_LongPressOnlyAfterDelay ==
  [][(lastOp'.op = "longPressTimer" /\ GestureEmitted("longPress")') =>
       /\ Tracked(lastOp'.arg)
       /\ TouchObjectOf(lastOp'.arg).age >= longPressDelay]_vars

\* The first half of C15 alone: an up or a cancel leaves no timer pending
\* for the touch object it releases
C15_TimerDisarmed ==
  [][lastOp'.op \in {"touchend", "touchcancel"} =>
       \A t \in tc'.timers : t.obj # ActiveGet(tc.activeTouches, lastOp'.arg)]_vars

\* A long-press was emitted for a pointer that went down one tick ago
C15_EarlyLongPress ==
  /\ lastOp.op = "longPressTimer"
  /\ GestureEmitted("longPress")
  /\ Tracked(lastOp.arg)
  /\ TouchObjectOf(lastOp.arg).age < longPressDelay

\* A timer is stale when the pointer it was armed for is gone: its touch
\* object tracks nothing, or tracks a pointer that went down after the timer
\* was armed
Stale(t) ==
  \/ ~Tracked(tc.objects[t.obj].id)
  \/ ActiveGet(tc.activeTouches, tc.objects[t.obj].id) # t.obj
  \/ tc.objects[t.obj].age + t.left # longPressDelay

NoGestureOrAction ==
  /\ \A kind \in {"tap", "doubleTap", "swipe", "longPress", "pinch"} :
       ~GestureEmitted(kind)'
  /\ ~Includes(performed', "handleTouchCast")
  /\ ~Includes(performed', "handleTouchReel")

\* C16: a pointer removed by a cancel is discarded without classification:
\* no gesture and no cast or reel is emitted for it, at the cancel or later
\* (when the timer armed at its pointer-down expires).
C16_CancelledPointerFiresNothing ==
  [][/\ lastOp'.op = "touchcancel" => NoGestureOrAction
     /\ (lastOp'.op = "longPressTimer" /\ Stale(FiredTimer)) => NoGestureOrAction]_vars

\* The first half of C16 alone: nothing fires at the cancel
C16_NothingAtCancel ==
  [][lastOp'.op = "touchcancel" =>
       NoGestureOrAction /\ ~ActiveHas(tc'.activeTouches, lastOp'.arg)]_vars

\* C17: a tracked pointer that got no event for longer than touchTimeout is
\* eventually removed from the active set, without a cleanup by the host.
C17_IdlePointerReclaimed ==
  \A id \in TouchIds :
    (Tracked(id) /\ TouchObjectOf(id).idle > touchTimeout) ~> ~Tracked(id)

\* A pointer is tracked and idle for longer than touchTimeout
C17_IdlePointerTracked ==
  \E id \in TouchIds : Tracked(id) /\ TouchObjectOf(id).idle > touchTimeout

\* A touch point (not the mouse's simulated touch) is down
TouchActive == \E id \in TouchIds : Tracked(id)

\* C18: while a touch pointer is active, no mouse down, move or up changes
\* the tracked pointers or emits an event.
C18_MouseSuppressedDuringTouch ==
  [][(lastOp'.op \in {"mousedown", "mousemove", "mouseup"} /\ TouchActive) =>
       /\ tc'.activeTouches = tc.activeTouches
       /\ tc'.objects = tc.objects
       /\ emitted' = <<>>]_vars

\* The part of C18 that holds: a mouse button that goes down during a touch
C18_MouseDownSuppressedDuringTouch ==
  [][(lastOp'.op = "mousedown" /\ TouchActive) =>
       /\ tc' = tc
       /\ emitted' = <<>>]_vars

\* A mouse move was processed while a touch point was down
C18_MouseMoveDuringTouch ==
  /\ lastOp.op = "mousemove"
  /\ TouchActive
  /\ TouchEmitted("touchMove")

\* C19: a pointer released at least swipeMinDistance away from where it went
\* down is classified as a swipe and never as a tap, whether or not a move of
\* it was processed.
C19_SwipeByNetDisplacement ==
  [][(/\ lastOp'.op = "touchend"
      /\ game.touchEnabled /\ ~tc.destroyed
      /\ Abs(lastOp'.y - TouchObjectOf(lastOp'.arg).startY) >= swipeMinDistance) =>
       /\ GestureEmitted("swipe")'
       /\ ~GestureEmitted("tap")'
       /\ ~GestureEmitted("doubleTap")']_vars

\* A pointer released a swipe away was classified as a tap
C19_SwipeTakenForTap ==
  /\ lastOp.op = "touchend"
  /\ GestureEmitted("tap")
  /\ Abs(lastOp.y - tc.lastTapPosition) >= swipeMinDistance

\* C20: a tap inside the reeling zone while the player is casting starts
\* reeling: after the tap isReeling is true and isCasting is false.
C20_TapInReelingZoneReels ==
  [][(/\ lastOp'.op = "touchend"
      /\ GestureEmitted("tap")'
      /\ isInReelingZone(tc'.lastTapPosition)
      /\ player.isCasting) =>
       /\ player'.isReeling
       /\ ~player'.isCasting]_vars

\* A tap in the reeling zone left the player casting
C20_TapLeavesCasting ==
  /\ lastOp.op = "touchend"
  /\ GestureEmitted("tap")
  /\ isInReelingZone(tc.lastTapPosition)
  /\ player.isCasting /\ ~player.isReeling

\* The gestures and the game actions of this step
GesturesEmitted ==
  {kind \in {"tap", "doubleTap", "swipe", "longPress", "pinch"} : GestureEmitted(kind)}

\* A pointer goes up where it went down, before longPressDelay has passed
\* since its pointer-down and with no tap inside the double-tap window
QuickTapUp ==
  /\ lastOp'.op = "touchend"
  /\ game.touchEnabled /\ ~tc.destroyed
  /\ lastOp'.y = TouchObjectOf(lastOp'.arg).startY
  /\ TouchObjectOf(lastOp'.arg).age < longPressDelay
  /\ tc.lastTapAge >= doubleTapDelay

\* C21: a pointer that goes down and up at the same point, up before
\* longPressDelay has passed and with no earlier tap inside the double-tap
\* window, fires exactly one gesture, a tap: no swipe and no cast at its
\* up, and no long-press before it.
C21_QuickTapFiresOneTap ==
  [][QuickTapUp =>
       /\ GesturesEmitted' = {"tap"}
       /\ ~Includes(performed', "handleTouchCast")
       /\ ~(lastOp.op = "longPressTimer" /\ lastOp.arg = lastOp'.arg
              /\ GestureEmitted("longPress"))]_vars

\* The part of C21 that holds: the same for a pointer none of whose moves was
\* processed, at its up
C21_UnmovedQuickTapFiresOneTap ==
  [][(QuickTapUp /\ TouchObjectOf(lastOp'.arg).deltaY = 0) =>
       /\ GesturesEmitted' = {"tap"}
       /\ ~Includes(performed', "handleTouchCast")]_vars

\* C22: the number of tracked touches never exceeds maxTouches and the free
\* pool never holds more than 2 * maxTouches objects, and a touchstart beyond
\* the cap is ignored: it tracks nothing and emits nothing.
C22_TouchTrackingBounded ==
  /\ [](Len(tc.activeTouches) <= maxTouches /\ Len(tc.touchPool) <= 2 * maxTouches)
  /\ [][(lastOp'.op = "touchstart" /\ Len(tc.activeTouches) >= maxTouches) =>
          (tc' = tc /\ emitted' = <<>>)]_vars

\* A touchstart came with maxTouches pointers tracked, and was ignored
C22_Witness ==
  /\ lastOp.op = "touchstart"
  /\ ~Tracked(lastOp.arg)
  /\ Len(tc.activeTouches) = maxTouches

\* A touch object was released with the pool full
C22_WitnessPoolFull ==
  /\ lastOp.op \in {"touchend", "touchcancel", "mouseup"}
  /\ Len(tc.touchPool) = 2 * maxTouches
  /\ Len(tc.activeTouches) > 0

(* Properties of destroy() *)

\* C23: a second destroy() of a component (Game, Player, Fish,
\* TouchController) throws nothing and leaves every component as the first
\* destroy() left it.
C23_DestroyTwiceIsDestroyOnce ==
  [][lastOp'.op \in {"again " \o call : call \in DestroyCalls} =>
       /\ ~Includes(performed', "throw")
       /\ <<player, fish, game, raf, tc>>' = <<player, fish, game, raf, tc>>]_vars

\* The Game was destroyed twice in a row, in play, with a frame and a
\* long-press timer pending and a fish on the line
C23_Witness ==
  /\ lastOp.op = "again game.destroy"
  /\ game.isRunning /\ raf # {}
  /\ tc.timers # {}
  /\ player.fishesCaught > 0

\* Each of the other components was destroyed twice in a row
C23_WitnessPlayer == lastOp.op = "again player.destroy"

C23_WitnessTouchController ==
  lastOp.op = "again touchController.destroy" /\ tc.timers # {}

C23_WitnessFish == lastOp.op = "again fish.destroy"

\* C24: destroy() deregisters every listener and timer of the controller:
\* once it is destroyed no event of the canvas is dispatched to a handler of
\* it, and no long-press timer it armed runs its callback.
C24_DestroyDeregisters ==
  [][tc.destroyed => lastOp'.op \notin DomEvents \cup {"longPressTimer"}]_vars

\* The two halves of C24 as states of a destroyed controller: no listener of
\* the canvas is left, no timer is pending
C24_NoListenerLeft == tc.destroyed => tc.handlers = {}

C24_NoTimerLeft == tc.destroyed => tc.timers = {}

\* A handler of a destroyed controller was called by an event of the canvas
C24_HandlerCalledAfterDestroy == tc.destroyed /\ lastOp.op \in DomEvents

\* A long-press timer ran its callback on a destroyed controller
C24_TimerFiredAfterDestroy == tc.destroyed /\ lastOp.op = "longPressTimer"


----------------------------------------------------------------------------
(* Properties of a destroyed Game *)

PublicCalls ==
  {"start", "pause", "resume", "stop", "restart", "setState", "update", "render"}

\* C25: after destroy(), each of start, pause, resume, stop, restart,
\* setState, update and render of the Game throws nothing and leaves the
\* game's state (stats, gameState, flags, pools) unchanged.
C25_DestroyedGameIgnoresCalls ==
  [][(game.destroyed /\ lastOp'.op \in PublicCalls) =>
        /\ ~Includes(performed', "throw")
        /\ game' = game]_vars

\* The calls that return at their destroyed check: all but restart() and
\* setState()
C25_GuardedCallsIgnored ==
  [][(game.destroyed /\ lastOp'.op \in PublicCalls \ {"restart", "setState"}) =>
        /\ ~Includes(performed', "throw")
        /\ <<player, fish, game, raf, tc>>' = <<player, fish, game, raf, tc>>
        /\ emitted' = <<>>]_vars

\* No call on a destroyed Game throws
C25_NoCallThrows ==
  [][(game.destroyed /\ lastOp'.op \in PublicCalls) =>
        ~Includes(performed', "throw")]_vars

\* setState() has changed the state of a destroyed Game
C25_StateSetAfterDestroy ==
  /\ lastOp.op = "setState" /\ game.destroyed /\ game.gameState = "playing"


----------------------------------------------------------------------------
(* Properties of the event system *)

\* The callbacks an operation has called, in the order of the calls
Called(calls) == SelectSeq(calls, LAMBDA call : call \in Callbacks)

\* The callbacks subscribed to the event
ListenersOf(event) ==
  IF event \in DOMAIN game.eventListeners THEN game.eventListeners[event] ELSE <<>>

\* C26: an emit invokes every listener that is subscribed to the event when
\* the emit starts, in registration order, even if some listener throws or a
\* listener calls off() for itself or another listener during the delivery.
C26_EveryListenerCalled ==
  [][lastOp'.op = "_emit" => Called(performed') = ListenersOf("test")]_vars

\* Delivery to listeners of which none calls off(): each is called once, in
\* registration order, whether or not another one throws; what a listener
\* throws is logged and does not leave _emit
C26_CalledInOrderWithoutOff ==
  [][(/\ lastOp'.op = "_emit"
      /\ \A i \in 1..Len(ListenersOf("test")) :
           ListenersOf("test")[i] \in {"spy", "thrower"}) =>
        /\ Called(performed') = ListenersOf("test")
        /\ ~Includes(performed', "throw")]_vars

\* A listener that throws is followed by a listener that is called
C26_CalledAfterThrow ==
  /\ lastOp.op = "_emit"
  /\ performed = <<"thrower", "console.warn", "spy">>

\* A listener removed itself during the delivery, and the listener subscribed
\* after it was not called
C26_ListenerSkipped ==
  /\ lastOp.op = "_emit"
  /\ performed = <<"once">>
  /\ ListenersOf("test") = <<"spy">>

\* C27: every stateful component emits 'destroyed' through its
\* event-subscription interface: a listener subscribed to 'destroyed' before
\* the first destroy() call is invoked by that call.
C27_DestroyedDelivered ==
  [][(lastOp'.op = "destroy" /\ ~game.destroyed) =>
        \A i \in 1..Len(ListenersOf("destroyed")) :
           Includes(performed', ListenersOf("destroyed")[i])]_vars

\* destroy() calls no listener at all
C27_DestroyCallsNoListener ==
  [][lastOp'.op = "destroy" => Called(performed') = <<>>]_vars

\* destroy() has returned: 'destroyed' was emitted and no listener was called
C27_DestroyedUnheard ==
  /\ lastOp.op = "destroy"
  /\ Emitted("Game", "destroyed")
  /\ Called(performed) = <<>>


----------------------------------------------------------------------------
(* Properties of power-ups *)

\* The power-ups of the Player whose duration is over
Expired ==
  {player.activePowerUps[i] : i \in
     {j \in 1..Len(player.activePowerUps) :
        player.activePowerUps[j].elapsed >= player.activePowerUps[j].duration}}

\* C28: when a power-up expires it is removed from the active list and every
\* property it overwrote (maxLineLength, reelingSpeed, casting power) is reset
\* to its fixed default, so no power-up value outlives its duration.
C28_ExpiryResetsOverwritten ==
  [][(lastOp'.op = "update" /\ ~player.destroyed) =>
        \A powerUp \in Expired :
           /\ ~Includes(player'.activePowerUps, powerUp)
           /\ powerUp.effect.maxLineLength # 0 =>
                player'.maxLineLength = ExpiredMaxLineLength
           /\ powerUp.effect.reelingSpeed # 0 =>
                player'.reelingSpeed = ExpiredReelingSpeed
           /\ powerUp.effect.castingPower # 0 =>
                player'.maxCastingPower = DefaultMaxCastingPower]_vars

\* What expiry does reset: the power-up leaves the list, and maxLineLength
\* and reelingSpeed get their fixed values
C28_ExpiryResetsLineAndReel ==
  [][(lastOp'.op = "update" /\ ~player.destroyed) =>
        \A powerUp \in Expired :
           /\ ~Includes(player'.activePowerUps, powerUp)
           /\ powerUp.effect.maxLineLength # 0 =>
                player'.maxLineLength = ExpiredMaxLineLength
           /\ powerUp.effect.reelingSpeed # 0 =>
                player'.reelingSpeed = ExpiredReelingSpeed]_vars

\* A reeling power-up has expired and the reeling speed is the default again
C28_ReelingSpeedReset ==
  /\ lastOp.op = "update"
  /\ Emitted("Player", "powerUpExpired")
  /\ player.activePowerUps = <<>>
  /\ player.reelingSpeed = ExpiredReelingSpeed

\* The casting power of a power-up is in force with no power-up active
C28_CastingPowerOutlives ==
  /\ player.activePowerUps = <<>>
  /\ player.maxCastingPower = PowerCast.effect.castingPower


----------------------------------------------------------------------------
(* Properties of the line *)

\* C29: a casting Player whose lineLength is maxLineLength + 50 has, after one
\* update() tick, lineBroken = true and isCasting = false.
C29_LongLineBreaks ==
  [][(/\ lastOp'.op = "update"
      /\ player.isCasting
      /\ player.lineLength = player.maxLineLength + LineExcess) =>
        (player'.lineBroken /\ ~player'.isCasting)]_vars

\* update() of a Player that is neither casting nor reeling, as the Player
\* of the test is, leaves the line as it is
C29_IdleLineUntouched ==
  [][(lastOp'.op = "update" /\ Idle(player)) =>
        /\ player'.lineLength = player.lineLength
        /\ player'.lineBroken = player.lineBroken]_vars

\* update() takes the line length from where the hook is, whatever lineLength
\* held before
C29_LineLengthFromHook ==
  [][(lastOp'.op = "update" /\ ~Idle(player')) =>
        player'.lineLength =
          distance(player'.x, player'.y, player'.hookX, player'.hookY)]_vars

\* The line of the test is still whole after an update
C29_LongLineWhole ==
  /\ lastOp.op = "update"
  /\ ~player.isCasting /\ ~player.isReeling /\ ~player.lineBroken
  /\ player.lineLength = player.maxLineLength + LineExcess


----------------------------------------------------------------------------
(* Properties of a Fish's score *)

\* C30: for every Fish that can be constructed (any positive width, height
\* and scale, any fishType and behavior) and in every state, scoreValue > 0
\* and getScore() > 0.
C30_ScorePositive ==
  \A f \in PlayerFish : fish[f].scoreValue > 0 /\ getScore(fish[f]) > 0

\* A Fish at least as large as the default 32 x 32 scores at least 10 times
\* its rarity, in every state and with every behavior
C30_DefaultSizedFishScores ==
  \A f \in PlayerFish :
    fish[f].width + fish[f].height >= 64 =>
      /\ fish[f].scoreValue >= 10 * fish[f].rarity
      /\ getScore(fish[f]) >= fish[f].scoreValue

\* No call changes scoreValue or what it was computed from
C30_ScoreValueFixed ==
  [][\A f \in PlayerFish :
       /\ fish'[f].scoreValue = fish[f].scoreValue
       /\ fish'[f].width = fish[f].width /\ fish'[f].height = fish[f].height
       /\ fish'[f].rarity = fish[f].rarity]_vars

\* A Fish of 1 x 1 has a scoreValue of 0
C30_ScoreValueZero ==
  \E f \in PlayerFish :
    fish[f].width = 1 /\ fish[f].height = 1 /\ fish[f].scoreValue = 0

\* A Fish with a positive scoreValue scores 0
C30_ScoreZero ==
  \E f \in PlayerFish : fish[f].scoreValue > 0 /\ getScore(fish[f]) = 0


----------------------------------------------------------------------------
(* Properties of a destroyed Fish *)

\* C31: the destroyed state of a Fish is terminal: once destroy() has been
\* called, no later call (reset, escape, catch, update, setBehavior) clears
\* its destroyed flag or makes it active again.
C31_DestroyedIsTerminal ==
  [][\A f \in PlayerFish :
       fish[f].destroyed => (fish'[f].destroyed /\ ~fish'[f].isActive)]_vars

\* The calls that leave a destroyed Fish destroyed and no more active than it
\* was: all but reset() and escape()
C31_DestroyedKeptByOtherCalls ==
  [][\A f \in PlayerFish :
       (fish[f].destroyed /\ lastOp'.op \notin {"fish.reset", "fish.escape"}) =>
          (fish'[f].destroyed /\ (fish'[f].isActive => fish[f].isActive))]_vars

\* escape() has made a destroyed Fish active
C31_DestroyedAndActive ==
  \E f \in PlayerFish : fish[f].destroyed /\ fish[f].isActive


----------------------------------------------------------------------------
(* Properties of MathUtils *)

\* C32: fastCircleCollision(a, b) returns the same boolean as
\* circleCollision(a, b) for all finite circle pairs, including the
\* exact-touching boundary and zero or negative radii.
C32_FastAgreesWithExact ==
  lastOp.op = "fastCircleCollision" =>
    lastOp.returns = circleCollision(lastOp.circle1, lastOp.circle2)

\* The two agree whenever the radius sum is not negative
C32_AgreeForRadiusSumNotNegative ==
  (/\ lastOp.op = "fastCircleCollision"
   /\ lastOp.circle1.radius + lastOp.circle2.radius >= 0) =>
     lastOp.returns = circleCollision(lastOp.circle1, lastOp.circle2)

\* Circles that touch exactly: both checks return true
C32_Touching ==
  /\ lastOp.op = "fastCircleCollision" /\ lastOp.returns
  /\ lastOp.circle1.radius = 3 /\ lastOp.circle2.radius = 2
  /\ lastOp.circle2.x = 3 /\ lastOp.circle2.y = 4
  /\ circleCollision(lastOp.circle1, lastOp.circle2)

\* Circles of negative radii: the fast check returns true, the exact one false
C32_NegativeRadiiDisagree ==
  /\ lastOp.op = "fastCircleCollision" /\ lastOp.returns
  /\ lastOp.circle1.radius < 0 /\ lastOp.circle2.radius < 0
  /\ ~circleCollision(lastOp.circle1, lastOp.circle2)


----------------------------------------------------------------------------
(* Properties of the score of a catch *)

\* Math.floor(points * multiplier), the multiplier in tenths
ComboScore(points, multiplier) == (points * multiplier) \div 10

\* C33: each catch adds floor(base fish score x combo multiplier) to
\* stats.score, where the multiplier already counts that catch: the n-th
\* consecutive catch inside the combo window is scored with
\* min(1 + 0.1 * (n - 1), 3), so the second consecutive catch is scored at
\* 1.1 times its base.
C33_CatchScoredWithItsOwnMultiplier ==
  [][(lastOp'.op = "_handleFishCaught" /\ game.comboIdle <= comboTimeout) =>
        game'.stats.score =
          game.stats.score
            + ComboScore(FishScore, ComboMultiplierOf(game.comboCount + 1))]_vars

\* A catch is scored with the multiplier the catches before it have left: the
\* n-th consecutive catch with min(1 + 0.1 * (n - 2), 3), the first and the
\* second with 1
C33_CatchScoredWithMultiplierBefore ==
  [][lastOp'.op = "_handleFishCaught" =>
        /\ game'.stats.score =
             game.stats.score + ComboScore(FishScore, game.comboMultiplier)
        /\ game.comboMultiplier = ComboMultiplierOf(game.comboCount)
        /\ game'.comboCount = game.comboCount + 1]_vars

\* Two catches in a row have scored twice the base
C33_SecondCatchAtBase ==
  /\ lastOp.op = "_handleFishCaught"
  /\ game.comboCount = 2 /\ game.comboMultiplier = 11
  /\ game.stats.score = 2 * FishScore

\* Three catches in a row: the third is the first that scored more
C33_ThirdCatchScoresMore ==
  /\ lastOp.op = "_handleFishCaught"
  /\ game.comboCount = 3
  /\ game.stats.score = 2 * FishScore + ComboScore(FishScore, 11)


----------------------------------------------------------------------------
(* Properties of the pending frame callbacks *)

\* C34: at most one frame callback of the game loop is pending at any time,
\* under any sequence of start, pause, resume, stop, restart and game-over, so
\* update() and render() run at most once per animation frame.
C34_OneFramePending == Cardinality(raf) <= 1

\* A second callback becomes pending only by start(), also within restart(),
\* of a game that is not running while a callback of its last run is pending
C34_SecondFrameOnlyByStart ==
  [][(Cardinality(raf') > 1 /\ Cardinality(raf) <= 1) =>
        /\ lastOp'.op \in {"start", "restart"}
        /\ ~game.isRunning /\ ~game.destroyed
        /\ raf # {}]_vars

\* A frame callback schedules one callback and runs update() and render()
\* once at most
C34_OncePerCallback ==
  [][lastOp'.op = "frame" =>
        /\ Cardinality(raf') <= Cardinality(raf)
        /\ Len(SelectSeq(performed', LAMBDA call : call = "update")) <= 1
        /\ Len(SelectSeq(performed', LAMBDA call : call = "render")) <= 1]_vars

\* Two callbacks of a running game are pending: each runs update() and
\* render() in the next animation frame
C34_TwoFramesPending ==
  /\ Cardinality(raf) = 2
  /\ game.isRunning /\ ~game.isPaused /\ ~game.destroyed


----------------------------------------------------------------------------
(* Properties of the fish pool *)

\* How often the fish is an element of the sequence
Occurrences(seq, f) == Cardinality({i \in 1..Len(seq) : seq[i] = f})

\* C35: after any sequence of _spawnFish, _cleanupFish, _returnFishToPool,
\* _handleFishCaught and _resetGameState (restart) with maxFish unchanged,
\* every Fish created at initialisation is in exactly one of fishPool and
\* activeFish; none is lost and none appears twice.
C35_FishConserved ==
  \A f \in DOMAIN fish :
    Occurrences(game.fishPool, f) + Occurrences(game.activeFish, f) = 1

\* No fish appears twice, and every call but _resetGameState keeps each fish
\* where it is or moves it between the pool and the fish in play
C35_FishLostOnlyByReset ==
  [][/\ \A f \in DOMAIN fish :
          Occurrences(game'.fishPool, f) + Occurrences(game'.activeFish, f) <= 1
     /\ lastOp'.op # "_resetGameState" =>
          \A f \in DOMAIN fish :
             Occurrences(game'.fishPool, f) + Occurrences(game'.activeFish, f)
               = Occurrences(game.fishPool, f) + Occurrences(game.activeFish, f)]_vars

\* _resetGameState with one fish in play returns it to the pool
C35_OneFishReturned ==
  /\ lastOp.op = "_resetGameState"
  /\ Len(game.fishPool) = 2 * SchoolMaxFish
  /\ \E f \in DOMAIN fish : fish[f].x = "pool" /\ ~fish[f].isActive /\ f > 1

\* _resetGameState has dropped a fish: it is neither pooled nor in play
C35_FishLost ==
  /\ lastOp.op = "_resetGameState"
  /\ \E f \in DOMAIN fish :
       Occurrences(game.fishPool, f) + Occurrences(game.activeFish, f) = 0


----------------------------------------------------------------------------
(* Properties of a spawned fish *)

\* The fish _spawnFish hands out: the last one of the pool
NextFromPool == game.fishPool[Len(game.fishPool)]

\* _spawnFish does not return at its checks
CanSpawn == Len(game.activeFish) < game.maxFish /\ Len(game.fishPool) > 0

\* _handleFishSpawning calls _spawnFish in the update() of this step
SpawnDue ==
  (game.lastFishSpawn + lastOp'.arg) * game.fishSpawnRate >= fishSpawnInterval * 10

\* C36: a fish handed out by a successful spawn is active (isActive true, not
\* caught) when the spawn returns, and it is still in activeFish at the end of
\* that update tick unless it was caught or has left the playfield.
C36_SpawnedFishStaysInPlay ==
  [][/\ (lastOp'.op = "_spawnFish" /\ CanSpawn) =>
          /\ Includes(game'.activeFish, NextFromPool)
          /\ fish'[NextFromPool].isActive /\ ~fish'[NextFromPool].isCaught
     /\ (lastOp'.op = "update" /\ SpawnDue /\ CanSpawn) =>
          Includes(game'.activeFish, NextFromPool)]_vars

\* What a successful spawn hands out: a fish in play that is not caught, at
\* the edge of the playfield, and not active
C36_SpawnedFishIsInactive ==
  [][(lastOp'.op = "_spawnFish" /\ CanSpawn) =>
        /\ Includes(game'.activeFish, NextFromPool)
        /\ ~fish'[NextFromPool].isActive /\ ~fish'[NextFromPool].isCaught
        /\ fish'[NextFromPool].x = "edge"]_vars

\* The update() that spawns a fish returns it to the pool: no fish is in play
\* when an update() ends
C36_SpawnedFishCleanedUp ==
  [][lastOp'.op = "update" =>
        /\ game'.activeFish = <<>>
        /\ (SpawnDue /\ CanSpawn) =>
             (Includes(game'.fishPool, NextFromPool) /\ game'.lastFishSpawn = 0)]_vars

\* A spawn has succeeded and the fish in play is inactive
C36_InactiveInPlay ==
  /\ lastOp.op = "_spawnFish"
  /\ game.activeFish # <<>>
  /\ ~fish[game.activeFish[Len(game.activeFish)]].isActive

\* An update() has spawned a fish and no fish is in play
C36_SpawnedAndPooled ==
  /\ lastOp.op = "update"
  /\ game.lastFishSpawn = 0 /\ game.stats.playTime >= fishSpawnInterval
  /\ game.activeFish = <<>> /\ Len(game.fishPool) = 2 * SchoolMaxFish


----------------------------------------------------------------------------
(* The score of a catch over the catch and the completion of the reel *)

\* _completeReeling has run in this step
ReelingCompletes == Includes(emitted', <<"Player", "reelingComplete">>)

\* The fish catchFish has caught in this step
CaughtNow == Occurrences(emitted', <<"Player", "fishCaught">>)

\* C37: over a full catch -> reel-completion cycle, each caught fish
\* contributes its score to the Player's totalScore exactly once and increments
\* fishesCaught exactly once: the catch adds them, the completion of the reel
\* adds nothing.
C37_CaughtFishCountedOnce ==
  [][(CaughtNow > 0 \/ ReelingCompletes) =>
        /\ player'.totalScore = player.totalScore + CaughtNow * FishScore
        /\ player'.fishesCaught = player.fishesCaught + CaughtNow]_vars

\* What the code does: the catch adds the score and the count, and the
\* completion of the reel adds them a second time for every fish on the hook
C37_CaughtFishCountedTwice ==
  [][(CaughtNow > 0 \/ ReelingCompletes) =>
        LET reeledIn == IF ReelingCompletes THEN Len(player.caughtFish) ELSE 0
        IN /\ player'.totalScore =
                player.totalScore + (CaughtNow + reeledIn) * FishScore
           /\ player'.fishesCaught = player.fishesCaught + CaughtNow + reeledIn]_vars

\* The reel has been completed with a fish on the hook
C37_FishReeledIn ==
  /\ Includes(emitted, <<"Player", "reelingComplete">>)
  /\ player.totalScore > 0

\* One fish has been caught and reeled in, and it counts as two
C37_OneFishTwoScores ==
  /\ Includes(emitted, <<"Player", "reelingComplete">>)
  /\ game.stats.fishCaught = 1
  /\ player.totalScore = 2 * FishScore
  /\ player.fishesCaught = 2


----------------------------------------------------------------------------
(* The idle Player *)

\* The hook is at the anchor, no line is out and no fish is on the hook
AtRest(p) ==
  /\ p.hookX = p.x /\ p.hookY = p.y
  /\ p.lineLength = 0
  /\ p.caughtFish = <<>>

\* C38: whenever the player is idle (neither casting nor reeling) after any
\* sequence of cast, startReeling, stopReeling, update and reset, with catches
\* made only while casting, the hook is at the anchor, lineLength is 0 and the
\* caught-fish list is empty.
C38_IdlePlayerAtRest == Idle(player) => AtRest(player)

\* Only stopReeling takes the player to an idle state that is not at rest: a
\* reel that completes, a line that breaks and a reset leave the player at rest
C38_OnlyStopReelingStrands ==
  [][(/\ lastOp'.op # "stopReeling"
      /\ Idle(player) => AtRest(player)
      /\ Idle(player')) => AtRest(player')]_vars

\* Once idle away from the anchor, the player stays there until reset or cast:
\* update() returns before the hook physics and startReeling() at !isCasting
C38_StrandedUntilResetOrCast ==
  [][(/\ Idle(player) /\ ~AtRest(player)
      /\ lastOp'.op \in {"update", "startReeling", "stopReeling"}) =>
        /\ Idle(player')
        /\ player'.hookY = player.hookY
        /\ player'.caughtFish = player.caughtFish]_vars

\* stopReeling has left an idle player with line out and a fish on the hook
C38_StrandedWithFish ==
  /\ lastOp.op = "stopReeling"
  /\ Idle(player)
  /\ player.hookY # player.y
  /\ player.caughtFish # <<>>

\* The reel has completed and the player is idle at rest
C38_ReeledInAtRest ==
  /\ Includes(emitted, <<"Player", "reelingComplete">>)
  /\ Idle(player) /\ AtRest(player)


----------------------------------------------------------------------------
(* Pointers that go up while the controller is disabled *)

\* The touch object that tracks the pointer of this step's event
EventTouchObject == ActiveGet(tc.activeTouches, lastOp'.arg)

\* The pointer of this step's event is released: it has left activeTouches and
\* its touch object is in the pool
PointerReleased ==
  /\ ~ActiveHas(tc'.activeTouches, lastOp'.arg)
  /\ Includes(tc'.touchPool, EventTouchObject)

\* C39: every pointer whose up or cancel event is delivered is removed from the
\* active set and its tracking object returned to the pool, even if the game
\* was paused or input was disabled between its down and its up; no entry
\* stays in activeTouches (which would keep mouse input suppressed).
C39_PointerUpReleases ==
  [][(lastOp'.op \in {"touchend", "touchcancel"} /\ EventTouchObject # 0) =>
        PointerReleased]_vars

\* What the code does: a touchcancel releases the pointer, a touchend releases
\* it while the controller is enabled, and while it is disabled (the game
\* paused, stopped or over) a touchend leaves the pointer tracked and its touch
\* object out of the pool
C39_PointerUpReleasesWhenEnabled ==
  [][(lastOp'.op \in {"touchend", "touchcancel"} /\ EventTouchObject # 0) =>
        IF lastOp'.op = "touchcancel" \/ game.touchEnabled
        THEN PointerReleased
        ELSE /\ tc'.activeTouches = tc.activeTouches
             /\ tc'.touchPool = tc.touchPool]_vars

\* A mousedown while a pointer is tracked starts nothing
C39_MouseSuppressedWhileTracked ==
  [][(lastOp'.op = "mousedown" /\ tc.activeTouches # <<>>) =>
        (tc'.mouseDown = tc.mouseDown /\ tc'.activeTouches = tc.activeTouches)]_vars

\* A touchend has been delivered to a paused game and its pointer is tracked
C39_UpDeliveredStillTracked ==
  /\ lastOp.op = "touchend"
  /\ game.isPaused /\ ~game.touchEnabled
  /\ ActiveHas(tc.activeTouches, lastOp.arg)

\* A touchend has released its pointer
C39_UpReleased ==
  /\ lastOp.op = "touchend"
  /\ game.touchEnabled
  /\ tc.activeTouches = <<>>
  /\ Len(tc.touchPool) = maxTouches * 2

\* The game has been resumed, and a mousedown is ignored for a touch point
\* that is tracked
C39_MouseIgnoredAfterResume ==
  /\ lastOp.op = "mousedown"
  /\ game.touchEnabled /\ ~game.isPaused
  /\ ~tc.mouseDown
  /\ tc.activeTouches # <<>>


----------------------------------------------------------------------------
(* The end of a reel *)

\* C40: once startReeling() has succeeded, if update() keeps being called with
\* positive deltaTime the player eventually returns to idle (reeling completes
\* or the line breaks), for any number of caught fish and any active power-up.
C40_ReelingEnds == player.isReeling ~> Idle(player)

\* The velocity _updateReeling has set is undone by the gravity of one frame
GravityHoldsHook(p) ==
  /\ p.isReeling
  /\ p.hookVelocity.x = 0
  /\ p.hookVelocity.y + gravity = 0
  /\ p.lineLength > reelingDistance

\* When the reel's force is the gravity of a frame (three fish at 60 frames
\* per second) update() leaves the player as it was: reeling, with its hook
\* where it was
C40_HookStandsStill ==
  [][(lastOp'.op = "update" /\ GravityHoldsHook(player)) =>
        player' = player]_vars

\* A reel ends only by its completion or by the break of the line, and leaves
\* the hook at the anchor
C40_ReelEndsAtRest ==
  [][(player.isReeling /\ ~player'.isReeling) =>
        /\ lastOp'.op = "update"
        /\ Idle(player')
        /\ player'.hookY = player'.y /\ player'.lineLength = 0
        /\ player'.caughtFish = <<>>
        /\ \/ Includes(emitted', <<"Player", "reelingComplete">>)
           \/ Includes(emitted', <<"Player", "lineBroken">>)]_vars

\* The player is reeling three fish and update() does not move the hook
C40_ReelStuck ==
  /\ lastOp.op = "update"
  /\ Len(player.caughtFish) = 3
  /\ GravityHoldsHook(player)

\* A reel with fish on the hook has completed
C40_ReelCompleted ==
  /\ Includes(emitted, <<"Player", "reelingComplete">>)
  /\ Idle(player)
  /\ player.totalScore > 0


\* With fewer than three fish on the hook the reel's force is above the
\* gravity of a frame, and the reel ends
C40_LightReelEnds ==
  (player.isReeling /\ Len(player.caughtFish) < 3) ~> Idle(player)

====
